---- MODULE Spec2Model ----
(***************************************************************************)
(* Model of the knitit pick-up planner: the even-distribution generator,   *)
(* the repeat-cycle reducer and the run-length describer.                  *)
(*                                                                         *)
(* The core functions are pure; each is an operator computed the way the   *)
(* JavaScript computes it (same loops, same rounding), and each has an     *)
(* action that applies it to the current arguments and stores its result.  *)
(*                                                                         *)
(* Numbers of the distribution engine: all arguments are integers small    *)
(* enough that the IEEE double quotient                                    *)
(* (row + 1) * totalStitches / totalRows rounds, under Math.round, exactly *)
(* as the rational quotient does; these quotients are kept as              *)
(* numerator/denominator pairs.  The gauge arithmetic is computed in       *)
(* binary64, bit for bit.                                                  *)
(***************************************************************************)
EXTENDS Integers, Sequences, FiniteSets, TLC

\* Largest stitch count and row count the arguments are drawn from.
MaxStitches == 18
MaxRows == 16

VARIABLES
    argStitches,       \* first argument (totalStitches) of the calls
    argRows,           \* second argument (totalRows) of the calls
    called,            \* the functions applied to the arguments so far
    distribution,      \* result of generateEvenDistribution, integer counts
    boolDistribution,  \* result of generateEvenDistribution, boolean variant
    distributionInfo,  \* result of describeDistribution
    repeatPattern,     \* result of findMinimalRepeat
    fn,                \* the arithmetic function applied last, or "none"
    args,              \* the arguments the arithmetic functions are applied to
    ret,               \* the value the function applied last returned
    pickupResultSection,   \* classes and content of the pick-up result
    combineResultSection,  \* classes and content of the combination result
    calls,             \* the functions the handler run last has called
    resultSection,         \* classes and content of the size result
    currentViewMode,       \* view mode of the combination swatches
    gaugeInputs,           \* parsed values of the four combination gauges
    mainSwatchPreview,     \* innerHTML of the main fabric preview
    borderSwatchPreview,   \* innerHTML of the border fabric preview
    swatchOverlayContainer, \* innerHTML and style.display of the overlay
    activeViewButtons,     \* views whose toggle button carries 'active'
    locals             \* variables of the call that is followed step by step

coreVars == <<argStitches, argRows, called, distribution, boolDistribution,
              distributionInfo, repeatPattern>>

callVars == <<fn, args, ret>>

swatchVars == <<currentViewMode, gaugeInputs, mainSwatchPreview,
                borderSwatchPreview, swatchOverlayContainer,
                activeViewButtons>>

uiVars == <<pickupResultSection, combineResultSection, calls, resultSection,
            swatchVars>>

loopVars == <<locals>>

vars == <<coreVars, callVars, uiVars, loopVars>>

----------------------------------------------------------------------------
(* Arithmetic of the JavaScript runtime on integers *)

Abs(n) == IF n < 0 THEN -n ELSE n

\* Variant of MathRound: Math.floor in place of Math.round.
MathRoundFloor(num, den) == num \div den

\* Variant of MathRound: halves go to the even neighbour.
MathRoundHalfEven(num, den) ==
    LET lower == num \div den
    IN  IF 2 * (num - lower * den) < den THEN lower
        ELSE IF 2 * (num - lower * den) > den THEN lower + 1
        ELSE IF lower % 2 = 0 THEN lower ELSE lower + 1

\* Math.round(num / den) for den > 0: nearest integer, halves towards +Infinity.
MathRound(num, den) == (2 * num + den) \div (2 * den)

\* a % b of JavaScript for b # 0: truncated remainder, sign of the dividend.
JsRem(a, b) == IF a < 0 THEN -(Abs(a) % Abs(b)) ELSE a % Abs(b)

\* Variant of gcdLoop: `if` in place of `while`, a single Euclidean step.
gcdLoopOnce(a, b) == IF b # 0 THEN b ELSE a

\* The while loop of gcd.
RECURSIVE gcdLoop(_, _)
gcdLoop(a, b) == IF b # 0 THEN gcdLoop(b, JsRem(a, b)) ELSE a

\* gcd(a, b); Math.round is the identity on the integers.
gcd(a, b) == gcdLoop(a, b)

----------------------------------------------------------------------------
(* Even-distribution generator, integer-count variant *)

\* Variant of generateLoop: the cumulative target is taken at `row`
\* instead of `row + 1`.
RECURSIVE generateLoopRowIndex(_, _, _, _, _)
generateLoopRowIndex(totalStitches, totalRows, row, stitchesPlaced, result) ==
    IF row < totalRows
    THEN LET expectedStitches == MathRound(row * totalStitches, totalRows)
             stitchesThisRow == expectedStitches - stitchesPlaced
         IN  generateLoopRowIndex(totalStitches, totalRows, row + 1,
                                  expectedStitches,
                                  Append(result, stitchesThisRow))
    ELSE result

\* The for loop: `row` is the loop index, `stitchesPlaced` and `result`
\* the loop's variables.
RECURSIVE generateLoop(_, _, _, _, _)
generateLoop(totalStitches, totalRows, row, stitchesPlaced, result) ==
    IF row < totalRows
    THEN LET expectedStitches == MathRound((row + 1) * totalStitches, totalRows)
             stitchesThisRow == expectedStitches - stitchesPlaced
         IN  generateLoop(totalStitches, totalRows, row + 1, expectedStitches,
                          Append(result, stitchesThisRow))
    ELSE result

\* Variant of generateEvenDistribution: the loop starts at row 1.
generateEvenDistributionFromRow1(totalStitches, totalRows) ==
    generateLoop(totalStitches, totalRows, 1, 0, <<>>)

generateEvenDistribution(totalStitches, totalRows) ==
    generateLoop(totalStitches, totalRows, 0, 0, <<>>)

----------------------------------------------------------------------------
(* Even-distribution generator, boolean variant *)

\* Variant of generateBoolLoop: `>=` in place of `>`.
RECURSIVE generateBoolLoopGeq(_, _, _, _, _)
generateBoolLoopGeq(totalStitches, totalRows, row, stitchesPlaced, result) ==
    IF row < totalRows
    THEN LET expectedStitches == MathRound((row + 1) * totalStitches, totalRows)
         IN  IF expectedStitches >= stitchesPlaced
             THEN generateBoolLoopGeq(totalStitches, totalRows, row + 1,
                                      stitchesPlaced + 1, Append(result, TRUE))
             ELSE generateBoolLoopGeq(totalStitches, totalRows, row + 1,
                                      stitchesPlaced, Append(result, FALSE))
    ELSE result

RECURSIVE generateBoolLoop(_, _, _, _, _)
generateBoolLoop(totalStitches, totalRows, row, stitchesPlaced, result) ==
    IF row < totalRows
    THEN LET expectedStitches == MathRound((row + 1) * totalStitches, totalRows)
         IN  IF expectedStitches > stitchesPlaced
             THEN generateBoolLoop(totalStitches, totalRows, row + 1,
                                   stitchesPlaced + 1, Append(result, TRUE))
             ELSE generateBoolLoop(totalStitches, totalRows, row + 1,
                                   stitchesPlaced, Append(result, FALSE))
    ELSE result

generateEvenDistributionBool(totalStitches, totalRows) ==
    generateBoolLoop(totalStitches, totalRows, 0, 0, <<>>)

----------------------------------------------------------------------------
(* Run-length describer of describeDistribution *)

\* Variant of describeRunsLoop: the push of the open run after the loop is
\* missing.
RECURSIVE describeRunsLoopNoFinalPush(_, _, _, _, _)
describeRunsLoopNoFinalPush(dist, i, currentCount, runLength, runs) ==
    IF i < Len(dist)
    THEN IF dist[i + 1] = currentCount
         THEN describeRunsLoopNoFinalPush(dist, i + 1, currentCount,
                                          runLength + 1, runs)
         ELSE describeRunsLoopNoFinalPush(dist, i + 1, dist[i + 1], 1,
                  Append(runs, [stitchesPerRow |-> currentCount,
                                rows |-> runLength]))
    ELSE runs

\* The for loop over distribution[1..], 0-based index i; the final push of
\* the open run follows the loop.
RECURSIVE describeRunsLoop(_, _, _, _, _)
describeRunsLoop(dist, i, currentCount, runLength, runs) ==
    IF i < Len(dist)
    THEN IF dist[i + 1] = currentCount
         THEN describeRunsLoop(dist, i + 1, currentCount, runLength + 1, runs)
         ELSE describeRunsLoop(dist, i + 1, dist[i + 1], 1,
                  Append(runs, [stitchesPerRow |-> currentCount,
                                rows |-> runLength]))
    ELSE Append(runs, [stitchesPerRow |-> currentCount, rows |-> runLength])

\* The key `${run.stitchesPerRow}-${run.rows}` of runCounts.
runKey(run) == ToString(run.stitchesPerRow) \o "-" \o ToString(run.rows)

\* runCounts: for every key, the number of runs having it.
countRuns(runs) ==
    [k \in {runKey(runs[j]) : j \in DOMAIN runs} |->
        Cardinality({j \in DOMAIN runs : runKey(runs[j]) = k})]

describeDistribution(totalStitches, totalRows) ==
    LET dist == generateEvenDistribution(totalStitches, totalRows)
        runs == describeRunsLoop(dist, 1, dist[1], 1, <<>>)
    IN  [distribution |-> dist,
         runs |-> runs,
         runCounts |-> countRuns(runs),
         totalStitches |-> totalStitches,
         totalRows |-> totalRows]

----------------------------------------------------------------------------
(* Repeat-cycle reducer and text rendering of findMinimalRepeat *)

\* Inner while loop: counts the rows from 0-based index i on that hold
\* stitchCount; yields <<rows, i>> as the loop leaves them.
RECURSIVE scanRun(_, _, _, _)
scanRun(pattern, i, stitchCount, rows) ==
    IF i < Len(pattern) /\ pattern[i + 1] = stitchCount
    THEN scanRun(pattern, i + 1, stitchCount, rows + 1)
    ELSE <<rows, i>>

\* Outer while loop building `sequences`.
RECURSIVE sequencesLoop(_, _, _)
sequencesLoop(pattern, i, sequences) ==
    IF i < Len(pattern)
    THEN LET stitchCount == pattern[i + 1]
             scanned == scanRun(pattern, i, stitchCount, 0)
         IN  sequencesLoop(pattern, scanned[2],
                 Append(sequences, [stitches |-> stitchCount,
                                    rows |-> scanned[1]]))
    ELSE sequences

\* Variant of rowWord: always plural.
rowWordPlural(rows) == "rows"

\* `row${s.rows !== 1 ? 's' : ''}`
rowWord(rows) == "row" \o (IF rows # 1 THEN "s" ELSE "")

\* Description of a single run.
describeSingle(s) ==
    IF s.stitches = 0
    THEN "Skip " \o ToString(s.rows) \o " " \o rowWord(s.rows)
    ELSE IF s.stitches = 1
    THEN "Pick up 1 from each of " \o ToString(s.rows) \o " " \o rowWord(s.rows)
    ELSE "Pick up " \o ToString(s.stitches) \o " from each of "
             \o ToString(s.rows) \o " " \o rowWord(s.rows)

\* Variant of describePart: the short fragment is chosen by the stitch
\* count, not by the number of rows.
describePartByStitches(s) ==
    IF s.stitches = 0
    THEN "skip " \o ToString(s.rows)
    ELSE IF s.stitches = 1
    THEN "pick up " \o ToString(s.stitches)
    ELSE "pick up " \o ToString(s.stitches) \o " × " \o ToString(s.rows)
             \o " rows"

\* The fragment of one run among several (the callback of sequences.map).
describePart(s) ==
    IF s.stitches = 0
    THEN "skip " \o ToString(s.rows)
    ELSE IF s.rows = 1
    THEN "pick up " \o ToString(s.stitches)
    ELSE "pick up " \o ToString(s.stitches) \o " × " \o ToString(s.rows)
             \o " rows"

\* parts.join(sep)
RECURSIVE joinParts(_, _)
joinParts(parts, sep) ==
    IF Len(parts) = 0 THEN ""
    ELSE IF Len(parts) = 1 THEN parts[1]
    ELSE parts[1] \o sep \o joinParts(Tail(parts), sep)

describeSequences(sequences) ==
    IF Len(sequences) = 1
    THEN describeSingle(sequences[1])
    ELSE joinParts([j \in DOMAIN sequences |-> describePart(sequences[j])],
                   " → ")

\* The body of findMinimalRepeat after `const g = gcd(...)`; g divides
\* both arguments, so the two quotients are exact.
repeatOfCycle(totalStitches, totalRows, g) ==
    LET cycleStitches == totalStitches \div g
        cycleRows == totalRows \div g
        pattern == generateEvenDistribution(cycleStitches, cycleRows)
        sequences == sequencesLoop(pattern, 0, <<>>)
    IN  [cycleStitches |-> cycleStitches,
         cycleRows |-> cycleRows,
         repeats |-> g,
         pattern |-> pattern,
         sequences |-> sequences,
         description |-> describeSequences(sequences)]

\* Variant of findMinimalRepeat: the pair is not reduced.
findMinimalRepeatUnreduced(totalStitches, totalRows) ==
    repeatOfCycle(totalStitches, totalRows, 1)

findMinimalRepeat(totalStitches, totalRows) ==
    repeatOfCycle(totalStitches, totalRows, gcd(totalStitches, totalRows))

----------------------------------------------------------------------------
(* Natural numbers of any size: little-endian sequences of 15-bit limbs, *)
(* without leading zero limbs; they carry the 53-bit significands and    *)
(* the 106-bit products of the Number type.                              *)

LimbBits == 15
LimbBase == 32768
MantissaBits == 53

RECURSIVE Pow2(_)
Pow2(k) == IF k = 0 THEN 1 ELSE 2 * Pow2(k - 1)

RECURSIVE BigNorm(_)
BigNorm(x) ==
    IF Len(x) > 0 /\ x[Len(x)] = 0 THEN BigNorm(SubSeq(x, 1, Len(x) - 1))
    ELSE x

RECURSIVE BigFromInt(_)
BigFromInt(n) ==
    IF n = 0 THEN <<>>
    ELSE <<n % LimbBase>> \o BigFromInt(n \div LimbBase)

RECURSIVE BigToInt(_)
BigToInt(x) ==
    IF Len(x) = 0 THEN 0 ELSE x[1] + LimbBase * BigToInt(Tail(x))

BigLimb(x, j) == IF j <= Len(x) THEN x[j] ELSE 0

\* -1, 0 or 1 as x is below, equal to or above y; j runs from the top limb.
RECURSIVE BigCmpFrom(_, _, _)
BigCmpFrom(x, y, j) ==
    IF j = 0 THEN 0
    ELSE IF BigLimb(x, j) < BigLimb(y, j) THEN -1
    ELSE IF BigLimb(x, j) > BigLimb(y, j) THEN 1
    ELSE BigCmpFrom(x, y, j - 1)

BigCmp(x, y) ==
    BigCmpFrom(x, y, IF Len(x) > Len(y) THEN Len(x) ELSE Len(y))

RECURSIVE BigAddFrom(_, _, _, _)
BigAddFrom(x, y, j, carry) ==
    IF j > Len(x) /\ j > Len(y)
    THEN IF carry = 0 THEN <<>> ELSE <<carry>>
    ELSE LET t == BigLimb(x, j) + BigLimb(y, j) + carry
         IN  <<t % LimbBase>> \o BigAddFrom(x, y, j + 1, t \div LimbBase)

BigAdd(x, y) == BigAddFrom(x, y, 1, 0)

\* x - y for x >= y.
RECURSIVE BigSubFrom(_, _, _, _)
BigSubFrom(x, y, j, borrow) ==
    IF j > Len(x) THEN <<>>
    ELSE LET t == x[j] - BigLimb(y, j) - borrow
         IN  IF t < 0
             THEN <<t + LimbBase>> \o BigSubFrom(x, y, j + 1, 1)
             ELSE <<t>> \o BigSubFrom(x, y, j + 1, 0)

BigSub(x, y) == BigNorm(BigSubFrom(x, y, 1, 0))

\* x * k for 0 <= k < LimbBase.
RECURSIVE BigMulSmallFrom(_, _, _, _)
BigMulSmallFrom(x, k, j, carry) ==
    IF j > Len(x)
    THEN IF carry = 0 THEN <<>> ELSE <<carry>>
    ELSE LET t == x[j] * k + carry
         IN  <<t % LimbBase>> \o BigMulSmallFrom(x, k, j + 1, t \div LimbBase)

BigMulSmall(x, k) == BigNorm(BigMulSmallFrom(x, k, 1, 0))

RECURSIVE BigMul(_, _)
BigMul(x, y) ==
    IF Len(y) = 0 \/ Len(x) = 0 THEN <<>>
    ELSE LET rest == BigMul(x, Tail(y))
         IN  BigAdd(BigMulSmall(x, y[1]),
                    IF Len(rest) = 0 THEN <<>> ELSE <<0>> \o rest)

\* x * n for any natural number n.
BigMulInt(x, n) == BigMul(x, BigFromInt(n))

RECURSIVE SmallBitLen(_)
SmallBitLen(n) == IF n = 0 THEN 0 ELSE 1 + SmallBitLen(n \div 2)

BigBitLen(x) ==
    IF Len(x) = 0 THEN 0
    ELSE LimbBits * (Len(x) - 1) + SmallBitLen(x[Len(x)])

\* Bit i (bit 0 is the lowest) of x.
BigBit(x, i) ==
    IF i < 0 THEN 0
    ELSE (BigLimb(x, (i \div LimbBits) + 1) \div Pow2(i % LimbBits)) % 2

\* Some bit of x below bit i is set.
BigAnyBelow(x, i) ==
    IF i <= 0 THEN FALSE
    ELSE \/ \E j \in 1..Len(x) : j <= i \div LimbBits /\ x[j] # 0
         \/ BigLimb(x, (i \div LimbBits) + 1) % Pow2(i % LimbBits) # 0

\* x * 2^s.
BigShl(x, s) ==
    IF Len(x) = 0 THEN <<>>
    ELSE [j \in 1..(s \div LimbBits) |-> 0]
             \o BigMulSmall(x, Pow2(s % LimbBits))

\* floor(x / 2^s).
BigShr(x, s) ==
    LET drop == s \div LimbBits
        low == Pow2(s % LimbBits)
        high == LimbBase \div low
    IN  IF drop >= Len(x) THEN <<>>
        ELSE BigNorm([j \in 1..(Len(x) - drop) |->
                 (x[j + drop] \div low)
                     + (BigLimb(x, j + drop + 1) % low) * high])

----------------------------------------------------------------------------
(* The Number type: IEEE-754 binary64 with round-to-nearest, ties to even. *)
(* A finite number is (-1)^neg * m * 2^e with 2^52 <= m < 2^53, or zero    *)
(* (m = <<>>, e = 0).  A subnormal number is kept in the same shape, as a  *)
(* multiple of 2^MinExponent with e below MinExponent; a result of         *)
(* magnitude 2^1024 or more is an Infinity.  The sign of zero is not kept. *)

MinExponent == -1074
MaxExponent == 971

NaN == [kind |-> "nan", neg |-> FALSE, m |-> <<>>, e |-> 0]
Infinity(neg) == [kind |-> "inf", neg |-> neg, m |-> <<>>, e |-> 0]
DblZero == [kind |-> "num", neg |-> FALSE, m |-> <<>>, e |-> 0]

IsNaN(x) == x.kind = "nan"
IsZero(x) == x.kind = "num" /\ Len(x.m) = 0
IsFinite(x) == x.kind = "num"

\* The number nearest to (-1)^neg * (big + f) * 2^e, where 0 <= f < 1 and
\* f > 0 exactly when sticky holds: the magnitude is cut at bit s, which
\* leaves 53 bits or, for a subnormal result, the multiples of
\* 2^MinExponent.
DblRoundTo(neg, big, e, sticky) ==
    LET len == BigBitLen(big)
        s == IF MinExponent - e > len - MantissaBits
             THEN MinExponent - e ELSE len - MantissaBits
        q == BigShr(big, s)
        half == BigBit(big, s - 1) = 1
        rest == sticky \/ BigAnyBelow(big, s - 1)
        up == half /\ (rest \/ BigBit(q, 0) = 1)
        r == IF s <= 0 THEN big ELSE IF up THEN BigAdd(q, <<1>>) ELSE q
        cut == IF s <= 0 THEN e ELSE e + s
        rlen == BigBitLen(r)
        exponent == cut + rlen - MantissaBits
    IN  IF rlen = 0 THEN DblZero
        ELSE IF exponent > MaxExponent THEN Infinity(neg)
        ELSE IF rlen > MantissaBits
        THEN [kind |-> "num", neg |-> neg, m |-> BigShr(r, 1), e |-> exponent]
        ELSE [kind |-> "num", neg |-> neg,
              m |-> BigShl(r, MantissaBits - rlen), e |-> exponent]

\* The Number of an integer literal or of parseInt.
DblFromInt(n) ==
    DblRoundTo(n < 0, BigFromInt(IF n < 0 THEN -n ELSE n), 0, FALSE)

\* x * y
DblMul(x, y) ==
    IF IsNaN(x) \/ IsNaN(y) THEN NaN
    ELSE IF x.kind = "inf" \/ y.kind = "inf"
    THEN IF IsZero(x) \/ IsZero(y) THEN NaN ELSE Infinity(x.neg # y.neg)
    ELSE DblRoundTo(x.neg # y.neg, BigMul(x.m, y.m), x.e + y.e, FALSE)

\* The long division of x / y: st = <<remainder, quotient>>; the quotient
\* is built bit by bit, `todo` bits still to come.
RECURSIVE DivBits(_, _, _)
DivBits(st, den, todo) ==
    IF todo = 0 THEN st
    ELSE IF BigCmp(st[1], den) >= 0
    THEN DivBits(<<BigShl(BigSub(st[1], den), 1),
                   BigAdd(BigShl(st[2], 1), <<1>>)>>, den, todo - 1)
    ELSE DivBits(<<BigShl(st[1], 1), BigShl(st[2], 1)>>, den, todo - 1)

\* x / y
DblDiv(x, y) ==
    IF IsNaN(x) \/ IsNaN(y) THEN NaN
    ELSE IF x.kind = "inf"
    THEN IF y.kind = "inf" THEN NaN ELSE Infinity(x.neg # y.neg)
    ELSE IF y.kind = "inf" THEN DblZero
    ELSE IF IsZero(y)
    THEN IF IsZero(x) THEN NaN ELSE Infinity(x.neg # y.neg)
    ELSE IF IsZero(x) THEN DblZero
    ELSE LET st == DivBits(<<x.m, <<>>>>, y.m, MantissaBits + 3)
         IN  DblRoundTo(x.neg # y.neg, st[2], x.e - y.e - (MantissaBits + 2),
                        Len(st[1]) # 0)

\* -x
DblNeg(x) ==
    IF x.kind = "inf" \/ (IsFinite(x) /\ ~IsZero(x))
    THEN [x EXCEPT !.neg = ~x.neg] ELSE x

\* The magnitude of big * 2^e plus (or, with `minus`, less) a positive
\* amount below 2^(e - 2).
DblNudge(neg, big, e, minus) ==
    LET wide == BigShl(big, 2)
    IN  DblRoundTo(neg, IF minus THEN BigSub(wide, <<1>>) ELSE wide, e - 2, TRUE)

\* x - y; when one operand lies wholly below the guard bits of the other
\* it only decides the direction of the rounding.
DblSub(x, y) ==
    IF IsNaN(x) \/ IsNaN(y) THEN NaN
    ELSE IF x.kind = "inf"
    THEN IF y.kind = "inf" /\ x.neg = y.neg THEN NaN ELSE x
    ELSE IF y.kind = "inf" THEN DblNeg(y)
    ELSE IF IsZero(y) THEN x
    ELSE IF IsZero(x) THEN DblNeg(y)
    ELSE IF x.e - y.e > MantissaBits + 2
    THEN DblNudge(x.neg, x.m, x.e, x.neg = y.neg)
    ELSE IF y.e - x.e > MantissaBits + 2
    THEN DblNudge(~y.neg, y.m, y.e, x.neg = y.neg)
    ELSE LET low == IF x.e < y.e THEN x.e ELSE y.e
             bx == BigShl(x.m, x.e - low)
             by == BigShl(y.m, y.e - low)
             order == BigCmp(bx, by)
         IN  IF x.neg # y.neg THEN DblRoundTo(x.neg, BigAdd(bx, by), low, FALSE)
             ELSE IF order = 0 THEN DblZero
             ELSE IF order > 0 THEN DblRoundTo(x.neg, BigSub(bx, by), low, FALSE)
             ELSE DblRoundTo(~x.neg, BigSub(by, bx), low, FALSE)

\* Math.abs(x)
MathAbs(x) == [x EXCEPT !.neg = FALSE]

\* null, in the shape of a Number so that it can stand where one is expected.
Null == [kind |-> "null", neg |-> FALSE, m |-> <<>>, e |-> 0]
IsNull(x) == x.kind = "null"

\* !x for x a Number or null
IsFalsy(x) == IsNaN(x) \/ IsZero(x) \/ IsNull(x)

\* x < y for finite numbers
DblMagLess(x, y) ==
    IF IsZero(y) THEN FALSE
    ELSE IF IsZero(x) THEN TRUE
    ELSE IF x.e + 0 # y.e THEN x.e < y.e
    ELSE BigCmp(x.m, y.m) < 0

DblLess(x, y) ==
    IF x.neg /\ ~y.neg THEN ~(IsZero(x) /\ IsZero(y))
    ELSE IF ~x.neg /\ y.neg THEN FALSE
    ELSE IF x.neg THEN DblMagLess(y, x)
    ELSE DblMagLess(x, y)

\* x < y for any two Numbers; null counts as 0.
JsLess(x, y) ==
    LET a == IF IsNull(x) THEN DblZero ELSE x
        b == IF IsNull(y) THEN DblZero ELSE y
    IN  IF IsNaN(a) \/ IsNaN(b) THEN FALSE
        ELSE IF a.kind = "inf" THEN a.neg /\ ~(b.kind = "inf" /\ b.neg)
        ELSE IF b.kind = "inf" THEN ~b.neg
        ELSE DblLess(a, b)

\* Math.round(x) of a finite x of magnitude below 2^31, as an integer: the
\* nearest integer, halves towards +Infinity.
DblMathRound(x) ==
    IF IsZero(x) THEN 0
    ELSE LET s == -x.e
             whole == BigToInt(BigShr(x.m, s))
             half == BigBit(x.m, s - 1) = 1
             rest == BigAnyBelow(x.m, s - 1)
         IN  IF ~x.neg
             THEN (IF half THEN whole + 1 ELSE whole)
             ELSE (IF half /\ rest THEN -(whole + 1) ELSE -whole)

----------------------------------------------------------------------------
(* Rational reducer *)

\* Math.round(x) as a Number: the nearest integer, halves towards
\* +Infinity; a number with no fraction bits is its own rounding.
MathRoundNumber(x) ==
    IF IsNaN(x) \/ x.kind = "inf" \/ IsZero(x) THEN x
    ELSE IF x.e >= 0 THEN x
    ELSE LET s == -x.e
             whole == BigShr(x.m, s)
             half == BigBit(x.m, s - 1) = 1
             rest == BigAnyBelow(x.m, s - 1)
             up == IF x.neg THEN half /\ rest ELSE half
         IN  DblRoundTo(x.neg, IF up THEN BigAdd(whole, <<1>>) ELSE whole,
                        0, FALSE)

\* Variant of simplifyRatio: only the first component is divided.
simplifyRatioFirstOnly(a, b) ==
    [a |-> MathRoundNumber(DblDiv(DblFromInt(a), DblFromInt(gcd(a, b)))),
     b |-> DblFromInt(b)]

\* simplifyRatio(a, b) for integers a and b; the components of the result
\* are Numbers (NaN when the divisor is 0).
simplifyRatio(a, b) ==
    LET divisor == gcd(a, b)
    IN  [a |-> MathRoundNumber(DblDiv(DblFromInt(a), DblFromInt(divisor))),
         b |-> MathRoundNumber(DblDiv(DblFromInt(b), DblFromInt(divisor)))]

----------------------------------------------------------------------------
(* Gauge conversion functions *)

calculateTargetPatternMeasurement(personalGauge, patternGauge, desiredMeasurement) ==
    IF IsFalsy(personalGauge) \/ IsFalsy(patternGauge)
           \/ IsFalsy(desiredMeasurement)
    THEN Null
    ELSE DblMul(desiredMeasurement, DblDiv(personalGauge, patternGauge))

\* Variant of calculateActualMeasurement: the gauge quotient is not inverted.
calculateActualMeasurementSameQuotient(personalGauge, patternGauge, patternMeasurement) ==
    IF IsFalsy(personalGauge) \/ IsFalsy(patternGauge)
           \/ IsFalsy(patternMeasurement)
    THEN Null
    ELSE DblMul(patternMeasurement, DblDiv(personalGauge, patternGauge))

calculateActualMeasurement(personalGauge, patternGauge, patternMeasurement) ==
    IF IsFalsy(personalGauge) \/ IsFalsy(patternGauge)
           \/ IsFalsy(patternMeasurement)
    THEN Null
    ELSE DblMul(patternMeasurement, DblDiv(patternGauge, personalGauge))

\* Variant of calculateAdjustedPickupRatio: the row gauges are applied the
\* wrong way round.
calculateAdjustedPickupRatioInverted(patternStitches, patternRows, personalGaugeH, personalGaugeV, patternGaugeH, patternGaugeV) ==
    IF IsFalsy(patternStitches) \/ IsFalsy(patternRows)
           \/ IsFalsy(personalGaugeH) \/ IsFalsy(personalGaugeV)
           \/ IsFalsy(patternGaugeH) \/ IsFalsy(patternGaugeV)
    THEN Null
    ELSE LET adjustedStitches ==
                 DblMul(patternStitches, DblDiv(personalGaugeH, patternGaugeH))
             adjustedRows ==
                 DblMul(patternRows, DblDiv(patternGaugeV, personalGaugeV))
         IN  [rawStitches |-> adjustedStitches,
              rawRows |-> adjustedRows,
              ratio |-> DblDiv(adjustedStitches, adjustedRows)]

calculateAdjustedPickupRatio(patternStitches, patternRows, personalGaugeH, personalGaugeV, patternGaugeH, patternGaugeV) ==
    IF IsFalsy(patternStitches) \/ IsFalsy(patternRows)
           \/ IsFalsy(personalGaugeH) \/ IsFalsy(personalGaugeV)
           \/ IsFalsy(patternGaugeH) \/ IsFalsy(patternGaugeV)
    THEN Null
    ELSE LET adjustedStitches ==
                 DblMul(patternStitches, DblDiv(personalGaugeH, patternGaugeH))
             adjustedRows ==
                 DblMul(patternRows, DblDiv(personalGaugeV, patternGaugeV))
         IN  [rawStitches |-> adjustedStitches,
              rawRows |-> adjustedRows,
              ratio |-> DblDiv(adjustedStitches, adjustedRows)]

\* The object calculateGaugeCombination returns for one direction: `gauge`
\* is the main gauge of that direction.  mainCount is an integer (parseInt),
\* kept as one, as is the rounded borderStitches.
combinationAlong(type, mainUnit, gauge, borderGaugeH, mainCount) ==
    LET width == DblMul(DblDiv(mainCount, gauge), DblFromInt(10))
        borderStitches ==
            DblMathRound(DblDiv(DblMul(width, borderGaugeH), DblFromInt(10)))
        ratio == DblDiv(DblFromInt(borderStitches), mainCount)
    IN  [type |-> type,
         mainCount |-> DblMathRound(mainCount),
         borderStitches |-> borderStitches,
         measurement |->
             DblDiv(MathRoundNumber(DblMul(width, DblFromInt(10))),
                    DblFromInt(10)),
         ratio |->
             DblDiv(MathRoundNumber(DblMul(ratio, DblFromInt(100))),
                    DblFromInt(100)),
         simplified |-> simplifyRatio(borderStitches, DblMathRound(mainCount)),
         mainUnit |-> mainUnit,
         increase |-> borderStitches > DblMathRound(mainCount)]

\* Variant of calculateGaugeCombination: along rows the border's row gauge
\* is used.
calculateGaugeCombinationBorderV(mainGaugeH, mainGaugeV, borderGaugeH, borderGaugeV, mainCount, pickupAlong) ==
    IF IsFalsy(mainCount) THEN Null
    ELSE IF pickupAlong = "along-stitches"
    THEN IF IsFalsy(mainGaugeH) \/ IsFalsy(borderGaugeH) THEN Null
         ELSE combinationAlong("along-stitches", "stitches", mainGaugeH,
                               borderGaugeH, mainCount)
    ELSE IF pickupAlong = "along-rows"
    THEN IF IsFalsy(mainGaugeV) \/ IsFalsy(borderGaugeV) THEN Null
         ELSE combinationAlong("along-rows", "rows", mainGaugeV,
                               borderGaugeV, mainCount)
    ELSE Null

calculateGaugeCombination(mainGaugeH, mainGaugeV, borderGaugeH, borderGaugeV, mainCount, pickupAlong) ==
    IF IsFalsy(mainCount) THEN Null
    ELSE IF pickupAlong = "along-stitches"
    THEN IF IsFalsy(mainGaugeH) \/ IsFalsy(borderGaugeH) THEN Null
         ELSE combinationAlong("along-stitches", "stitches", mainGaugeH,
                               borderGaugeH, mainCount)
    ELSE IF pickupAlong = "along-rows"
    THEN IF IsFalsy(mainGaugeV) \/ IsFalsy(borderGaugeH) THEN Null
         ELSE combinationAlong("along-rows", "rows", mainGaugeV,
                               borderGaugeH, mainCount)
    ELSE Null

----------------------------------------------------------------------------
(* The swatch previews of the combination section *)

\* The values btn.dataset.view takes: the two view modes.
ViewModes == {"side-by-side", "overlay"}

EmptyHTML == [kind |-> "empty"]

\* What renderSwatchSVG and renderSwatchComparison draw is kept as the
\* gauges they are given; the drawing itself is not modelled.
SingleSwatch(h, v) == [kind |-> "swatch", h |-> h, v |-> v]

SwatchPlaceholder(text) == [kind |-> "placeholder", text |-> text]

OverlayComparison(mainH, mainV, borderH, borderV) ==
    [kind |-> "comparison", mode |-> "overlay", mainH |-> mainH,
     mainV |-> mainV, borderH |-> borderH, borderV |-> borderV]

\* Variant of updateCombineSwatchPreviews: the overlay container is left
\* shown when no fabric has both gauges.
updateCombineSwatchPreviewsKeepShown(mode, inputs) ==
    LET hasMainGauge ==
            JsLess(DblZero, inputs.mainH) /\ JsLess(DblZero, inputs.mainV)
        hasBorderGauge ==
            JsLess(DblZero, inputs.borderH) /\ JsLess(DblZero, inputs.borderV)
    IN  IF mode = "side-by-side"
        THEN [main |-> IF hasMainGauge
                       THEN SingleSwatch(inputs.mainH, inputs.mainV)
                       ELSE SwatchPlaceholder("Enter gauge to preview"),
              border |-> IF hasBorderGauge
                         THEN SingleSwatch(inputs.borderH, inputs.borderV)
                         ELSE SwatchPlaceholder("Enter gauge to preview"),
              overlay |-> [display |-> "none", content |-> EmptyHTML]]
        ELSE [main |-> EmptyHTML,
              border |-> EmptyHTML,
              overlay |->
                  IF hasMainGauge /\ hasBorderGauge
                  THEN [display |-> "flex",
                        content |-> OverlayComparison(inputs.mainH,
                                        inputs.mainV, inputs.borderH,
                                        inputs.borderV)]
                  ELSE IF hasMainGauge \/ hasBorderGauge
                  THEN [display |-> "flex",
                        content |->
                            SwatchPlaceholder("Enter both gauges for overlay")]
                  ELSE [display |-> "flex", content |-> EmptyHTML]]

\* updateCombineSwatchPreviews: the innerHTML of the two single previews
\* and the innerHTML and style.display of the overlay container, from the
\* view mode and the parsed values of the four gauge inputs.
updateCombineSwatchPreviews(mode, inputs) ==
    LET hasMainGauge ==
            JsLess(DblZero, inputs.mainH) /\ JsLess(DblZero, inputs.mainV)
        hasBorderGauge ==
            JsLess(DblZero, inputs.borderH) /\ JsLess(DblZero, inputs.borderV)
    IN  IF mode = "side-by-side"
        THEN [main |-> IF hasMainGauge
                       THEN SingleSwatch(inputs.mainH, inputs.mainV)
                       ELSE SwatchPlaceholder("Enter gauge to preview"),
              border |-> IF hasBorderGauge
                         THEN SingleSwatch(inputs.borderH, inputs.borderV)
                         ELSE SwatchPlaceholder("Enter gauge to preview"),
              overlay |-> [display |-> "none", content |-> EmptyHTML]]
        ELSE [main |-> EmptyHTML,
              border |-> EmptyHTML,
              overlay |->
                  IF hasMainGauge /\ hasBorderGauge
                  THEN [display |-> "flex",
                        content |-> OverlayComparison(inputs.mainH,
                                        inputs.mainV, inputs.borderH,
                                        inputs.borderV)]
                  ELSE IF hasMainGauge \/ hasBorderGauge
                  THEN [display |-> "flex",
                        content |->
                            SwatchPlaceholder("Enter both gauges for overlay")]
                  ELSE [display |-> "none", content |-> EmptyHTML]]

\* The four gauge inputs of the combination section, empty: parseFloat
\* of an empty field is NaN.
EmptyGaugeInputs ==
    [mainH |-> NaN, mainV |-> NaN, borderH |-> NaN, borderV |-> NaN]

\* The swatches once the page is set up: the mode of its declaration, the
\* previews as the first updateCombineSwatchPreviews() leaves them, and
\* the toggle button of the initial mode active.
SwatchesAtLoad ==
    LET drawn == updateCombineSwatchPreviews("side-by-side", EmptyGaugeInputs)
    IN  /\ currentViewMode = "side-by-side"
        /\ gaugeInputs = EmptyGaugeInputs
        /\ mainSwatchPreview = drawn.main
        /\ borderSwatchPreview = drawn.border
        /\ swatchOverlayContainer = drawn.overlay
        /\ activeViewButtons = {"side-by-side"}

----------------------------------------------------------------------------
(* The calls *)

\* No arithmetic function is applied in the specifications of the
\* distribution engine.
NoCall == fn = "none" /\ args = <<>> /\ ret = <<>>

\* A result section before any calculation; the sections are shown by
\* classList.remove('hidden', ...).
HiddenSection == [classes |-> {"hidden"}, content |-> [kind |-> "empty"]]

\* No call is followed step by step.
NoLoop == locals = [pc |-> "none"]

\* No form is submitted in the specifications of the pure functions.
IdleUI ==
    /\ pickupResultSection = HiddenSection
    /\ combineResultSection = HiddenSection
    /\ calls = <<>>
    /\ resultSection = HiddenSection
    /\ SwatchesAtLoad

Init ==
    /\ argStitches \in 0..MaxStitches
    /\ argRows \in 1..MaxRows
    /\ called = {}
    /\ distribution = <<>>
    /\ boolDistribution = <<>>
    /\ distributionInfo = <<>>
    /\ repeatPattern = <<>>
    /\ NoCall
    /\ IdleUI
    /\ NoLoop

CallGenerateEvenDistribution ==
    /\ "generateEvenDistribution" \notin called
    /\ called' = called \cup {"generateEvenDistribution"}
    /\ distribution' = generateEvenDistribution(argStitches, argRows)
    /\ UNCHANGED <<loopVars, argStitches, argRows, boolDistribution, distributionInfo,
                   repeatPattern, callVars, uiVars>>

CallGenerateEvenDistributionBool ==
    /\ "generateEvenDistributionBool" \notin called
    /\ called' = called \cup {"generateEvenDistributionBool"}
    /\ boolDistribution' = generateEvenDistributionBool(argStitches, argRows)
    /\ UNCHANGED <<loopVars, argStitches, argRows, distribution, distributionInfo,
                   repeatPattern, callVars, uiVars>>

CallDescribeDistribution ==
    /\ "describeDistribution" \notin called
    /\ called' = called \cup {"describeDistribution"}
    /\ distributionInfo' = describeDistribution(argStitches, argRows)
    /\ UNCHANGED <<loopVars, argStitches, argRows, distribution, boolDistribution,
                   repeatPattern, callVars, uiVars>>

CallFindMinimalRepeat ==
    /\ "findMinimalRepeat" \notin called
    /\ called' = called \cup {"findMinimalRepeat"}
    /\ repeatPattern' = findMinimalRepeat(argStitches, argRows)
    /\ UNCHANGED <<loopVars, argStitches, argRows, distribution, boolDistribution,
                   distributionInfo, callVars, uiVars>>

Next ==
    \/ CallGenerateEvenDistribution
    \/ CallGenerateEvenDistributionBool
    \/ CallDescribeDistribution
    \/ CallFindMinimalRepeat

Spec == Init /\ [][Next]_vars

----------------------------------------------------------------------------
(* The rational reducer applied to integer arguments *)

\* Largest magnitude of the arguments of gcd and simplifyRatio.
MaxRatioArg == 9

\* The distribution engine is not called in the specifications of the
\* arithmetic functions.
IdleCore ==
    /\ argStitches = 0
    /\ argRows = 1
    /\ called = {}
    /\ distribution = <<>>
    /\ boolDistribution = <<>>
    /\ distributionInfo = <<>>
    /\ repeatPattern = <<>>

InitRatio ==
    /\ IdleCore
    /\ IdleUI
    /\ NoLoop
    /\ fn = "none"
    /\ args \in (-MaxRatioArg..MaxRatioArg) \X (-MaxRatioArg..MaxRatioArg)
    /\ ret = <<>>

CallGcd ==
    /\ fn # "gcd"
    /\ fn' = "gcd"
    /\ ret' = gcd(args[1], args[2])
    /\ UNCHANGED <<loopVars, args, coreVars, uiVars>>

CallSimplifyRatio ==
    /\ fn # "simplifyRatio"
    /\ fn' = "simplifyRatio"
    /\ ret' = simplifyRatio(args[1], args[2])
    /\ UNCHANGED <<loopVars, args, coreVars, uiVars>>

NextRatio ==
    \/ CallGcd
    \/ CallSimplifyRatio

SpecRatio == InitRatio /\ [][NextRatio]_vars

----------------------------------------------------------------------------
(* The measurement conversions applied to positive arguments *)

\* Largest gauge and largest desired measurement of the conversions.
MaxGauge == 4
MaxMeasurement == 8

\* The Numbers of the integers lo..hi.
NumbersOf(lo, hi) == {DblFromInt(n) : n \in lo..hi}

\* args = <<personalGauge, patternGauge, desiredMeasurement>>
InitMeasure ==
    /\ IdleCore
    /\ IdleUI
    /\ NoLoop
    /\ fn = "none"
    /\ args \in NumbersOf(1, MaxGauge) \X NumbersOf(1, MaxGauge)
                    \X NumbersOf(1, MaxMeasurement)
    /\ ret = <<>>

CallTargetPatternMeasurement ==
    /\ fn = "none"
    /\ fn' = "calculateTargetPatternMeasurement"
    /\ ret' = calculateTargetPatternMeasurement(args[1], args[2], args[3])
    /\ UNCHANGED <<loopVars, args, coreVars, uiVars>>

\* calculateActualMeasurement applied to the target measurement returned
\* before.
CallActualMeasurementOfTarget ==
    /\ fn = "calculateTargetPatternMeasurement"
    /\ fn' = "calculateActualMeasurement"
    /\ ret' = calculateActualMeasurement(args[1], args[2], ret)
    /\ UNCHANGED <<loopVars, args, coreVars, uiVars>>

NextMeasure ==
    \/ CallTargetPatternMeasurement
    \/ CallActualMeasurementOfTarget

SpecMeasure == InitMeasure /\ [][NextMeasure]_vars

----------------------------------------------------------------------------
(* Boolean variant: run-length describer and repeat-cycle reducer *)

\* The for loop of the boolean describeDistribution and the push after it.
RECURSIVE describeBoolRunsLoop(_, _, _, _, _)
describeBoolRunsLoop(dist, i, currentType, currentCount, runs) ==
    IF i < Len(dist)
    THEN IF dist[i + 1] = currentType
         THEN describeBoolRunsLoop(dist, i + 1, currentType, currentCount + 1,
                                   runs)
         ELSE describeBoolRunsLoop(dist, i + 1, dist[i + 1], 1,
                  Append(runs, [pickup |-> currentType,
                                count |-> currentCount]))
    ELSE Append(runs, [pickup |-> currentType, count |-> currentCount])

\* The key `${run.pickup ? 'pickup' : 'skip'}-${run.count}` of runCounts.
boolRunKey(run) ==
    (IF run.pickup THEN "pickup" ELSE "skip") \o "-" \o ToString(run.count)

describeDistributionBool(totalStitches, totalRows) ==
    LET dist == generateEvenDistributionBool(totalStitches, totalRows)
        runs == describeBoolRunsLoop(dist, 1, dist[1], 1, <<>>)
    IN  [distribution |-> dist,
         runs |-> runs,
         runCounts |->
             [k \in {boolRunKey(runs[j]) : j \in DOMAIN runs} |->
                 Cardinality({j \in DOMAIN runs : boolRunKey(runs[j]) = k})],
         totalStitches |-> totalStitches,
         totalRows |-> totalRows]

\* Outer while loop of the boolean findMinimalRepeat.
RECURSIVE boolSequencesLoop(_, _, _)
boolSequencesLoop(pattern, i, sequences) ==
    IF i < Len(pattern)
    THEN LET isPickup == pattern[i + 1]
             scanned == scanRun(pattern, i, isPickup, 0)
         IN  boolSequencesLoop(pattern, scanned[2],
                 Append(sequences, [pickup |-> isPickup,
                                    count |-> scanned[1]]))
    ELSE sequences

describeBoolPart(s) ==
    IF s.pickup THEN "pick up " \o ToString(s.count)
    ELSE "skip " \o ToString(s.count)

describeBoolSequences(sequences) ==
    IF Len(sequences) = 1
    THEN IF sequences[1].pickup
         THEN "Pick up " \o ToString(sequences[1].count) \o " in a row"
         ELSE "Skip " \o ToString(sequences[1].count) \o " in a row"
    ELSE joinParts([j \in DOMAIN sequences |-> describeBoolPart(sequences[j])],
                   IF Len(sequences) = 2 THEN ", then " ELSE " → ")

findMinimalRepeatBool(totalStitches, totalRows) ==
    LET g == gcd(totalStitches, totalRows)
        cycleStitches == totalStitches \div g
        cycleRows == totalRows \div g
        pattern == generateEvenDistributionBool(cycleStitches, cycleRows)
        sequences == boolSequencesLoop(pattern, 0, <<>>)
    IN  [cycleStitches |-> cycleStitches,
         cycleRows |-> cycleRows,
         repeats |-> g,
         pattern |-> pattern,
         sequences |-> sequences,
         description |-> describeBoolSequences(sequences)]

----------------------------------------------------------------------------
(* The pick-up and combination forms *)

\* One entry of `calls`: a function of the calculators, the arguments it
\* was called with and the value it returned.
Call(name, arguments, value) ==
    [fn |-> name, args |-> arguments, ret |-> value]

\* What a handler run leaves behind: whether it showed an error, the
\* message or the values it wrote into the section, and the calls it made,
\* in the order it made them.
Outcome(isError, content, made) ==
    [error |-> isError, content |-> content, calls |-> made]

\* The section after a run: showPickupError / showCombineError, or the first
\* statement and the innerHTML assignment of the display function.
sectionAfter(section, outcome) ==
    [classes |->
         IF outcome.error
         THEN (section.classes \ {"hidden", "warning"}) \cup {"warning"}
         ELSE section.classes \ {"hidden", "warning"},
     content |->
         IF outcome.error
         THEN [kind |-> "error", message |-> outcome.content]
         ELSE outcome.content]

\* Boolean variant: describeDistribution and displayPickupResult, the tail
\* of calculatePickup.  totalRows is an integer here (parseInt, not NaN).
displayPickupBool(form, adjusted, totalStitchesToPickup) ==
    LET totalRows == DblMathRound(form.totalRows)
        info == describeDistributionBool(totalStitchesToPickup, totalRows)
        repeat == findMinimalRepeatBool(totalStitchesToPickup, totalRows)
    IN  Outcome(FALSE,
            [kind |-> "result",
             totalStitchesToPickup |-> totalStitchesToPickup,
             totalRows |-> totalRows,
             repeatPattern |-> repeat,
             patternStitches |-> form.patternStitches,
             patternRows |-> form.patternRows],
            <<adjusted,
              Call("describeDistribution",
                   <<totalStitchesToPickup, totalRows>>, info),
              Call("generateEvenDistribution",
                   <<totalStitchesToPickup, totalRows>>, info.distribution),
              Call("findMinimalRepeat",
                   <<totalStitchesToPickup, totalRows>>, repeat),
              Call("gcd", <<totalStitchesToPickup, totalRows>>,
                   repeat.repeats),
              Call("generateEvenDistribution",
                   <<repeat.cycleStitches, repeat.cycleRows>>,
                   repeat.pattern)>>)

\* The call of calculateAdjustedPickupRatio by calculatePickup.
adjustedCall(form) ==
    Call("calculateAdjustedPickupRatio",
         <<form.patternStitches, form.patternRows, form.personalGaugeH,
           form.personalGaugeV, form.patternGaugeH, form.patternGaugeV>>,
         calculateAdjustedPickupRatio(
             form.patternStitches, form.patternRows, form.personalGaugeH,
             form.personalGaugeV, form.patternGaugeH, form.patternGaugeV))

\* Math.round(totalRows * adjusted.ratio)
pickupCount(totalRows, adjusted) ==
    DblMathRound(DblMul(totalRows, adjusted.ratio))

\* Variant of the boolean calculatePickup: a count that reaches the row
\* count is let through.
calculatePickupBoolNoCeiling(form) ==
    IF IsFalsy(form.patternStitches) \/ IsFalsy(form.patternRows)
    THEN Outcome(TRUE,
             "Please enter the pattern's pick-up instruction (stitches per rows).",
             <<>>)
    ELSE IF IsFalsy(form.totalRows)
    THEN Outcome(TRUE, "Please enter the total rows along your edge.", <<>>)
    ELSE LET adjusted == adjustedCall(form)
             totalStitchesToPickup == pickupCount(form.totalRows, adjusted.ret)
         IN  IF adjusted.ret = Null
             THEN Outcome(TRUE,
                      "Could not calculate adjusted ratio. Please check your inputs.",
                      <<adjusted>>)
             ELSE IF totalStitchesToPickup < 1
             THEN Outcome(TRUE,
                      "The calculated pick-up count is too low. Please check your gauge values.",
                      <<adjusted>>)
             ELSE displayPickupBool(form, adjusted, totalStitchesToPickup)

\* calculatePickup of the boolean variant, from the parsed inputs on.
calculatePickupBool(form) ==
    IF IsFalsy(form.patternStitches) \/ IsFalsy(form.patternRows)
    THEN Outcome(TRUE,
             "Please enter the pattern's pick-up instruction (stitches per rows).",
             <<>>)
    ELSE IF IsFalsy(form.totalRows)
    THEN Outcome(TRUE, "Please enter the total rows along your edge.", <<>>)
    ELSE LET adjusted == adjustedCall(form)
             totalStitchesToPickup == pickupCount(form.totalRows, adjusted.ret)
         IN  IF adjusted.ret = Null
             THEN Outcome(TRUE,
                      "Could not calculate adjusted ratio. Please check your inputs.",
                      <<adjusted>>)
             ELSE IF totalStitchesToPickup >= DblMathRound(form.totalRows)
             THEN Outcome(TRUE,
                      "The calculated pick-up count exceeds your row count. This would mean picking up more than one stitch per row, which isn't possible for vertical edges.",
                      <<adjusted>>)
             ELSE IF totalStitchesToPickup < 1
             THEN Outcome(TRUE,
                      "The calculated pick-up count is too low. Please check your gauge values.",
                      <<adjusted>>)
             ELSE displayPickupBool(form, adjusted, totalStitchesToPickup)

\* The values the fields of the pick-up form are parsed to: an empty or
\* non-numeric field gives NaN.
PickupPersonalGaugeH == {NaN, DblFromInt(2), DblFromInt(3)}
PickupPersonalGaugeV == {DblFromInt(2), DblFromInt(3)}
PickupPatternGaugeH == {DblFromInt(2)}
PickupPatternGaugeV == {DblZero, DblFromInt(2)}
PickupStitches == {NaN, DblFromInt(1), DblFromInt(3)}
PickupRows == {DblZero, DblFromInt(4)}
PickupTotalRows == {DblZero, DblFromInt(-4), DblFromInt(1), DblFromInt(6)}

\* The form of the pick-up ratio scenario, for an edge of 20 rows.
ScenarioForm ==
    [personalGaugeH |-> DblFromInt(24),
     personalGaugeV |-> DblFromInt(32),
     patternGaugeH |-> DblFromInt(20),
     patternGaugeV |-> DblFromInt(28),
     patternStitches |-> DblFromInt(18),
     patternRows |-> DblFromInt(20),
     totalRows |-> DblFromInt(20)]

PickupForms ==
    [personalGaugeH : PickupPersonalGaugeH,
     personalGaugeV : PickupPersonalGaugeV,
     patternGaugeH : PickupPatternGaugeH,
     patternGaugeV : PickupPatternGaugeV,
     patternStitches : PickupStitches,
     patternRows : PickupRows,
     totalRows : PickupTotalRows]
        \cup {ScenarioForm}

InitBoolUI ==
    /\ IdleCore
    /\ NoCall
    /\ IdleUI
    /\ NoLoop

\* The runs of the boolean calculatePickup: every form with its outcome.
PickupBoolRuns ==
    {[form |-> form, outcome |-> calculatePickupBool(form)] :
        form \in PickupForms}

\* A click on the calculate button of the pick-up section, boolean variant.
CalculatePickupBool ==
    \E run \in PickupBoolRuns :
        /\ fn' = "calculatePickup"
        /\ args' = run.form
        /\ ret' = <<>>
        /\ pickupResultSection' = sectionAfter(pickupResultSection, run.outcome)
        /\ calls' = run.outcome.calls
        /\ UNCHANGED <<loopVars, combineResultSection, resultSection, swatchVars,
                       coreVars>>

NextBoolUI == CalculatePickupBool

SpecBoolUI == InitBoolUI /\ [][NextBoolUI]_vars

\* describeDistribution and displayPickupResult, the tail of calculatePickup
\* in the integer-count variant.
displayPickup(form, adjusted, totalStitchesToPickup) ==
    LET totalRows == DblMathRound(form.totalRows)
        info == describeDistribution(totalStitchesToPickup, totalRows)
        repeat == findMinimalRepeat(totalStitchesToPickup, totalRows)
    IN  Outcome(FALSE,
            [kind |-> "result",
             totalStitchesToPickup |-> totalStitchesToPickup,
             totalRows |-> totalRows,
             repeatPattern |-> repeat,
             patternStitches |-> form.patternStitches,
             patternRows |-> form.patternRows],
            <<adjusted,
              Call("describeDistribution",
                   <<totalStitchesToPickup, totalRows>>, info),
              Call("generateEvenDistribution",
                   <<totalStitchesToPickup, totalRows>>, info.distribution),
              Call("findMinimalRepeat",
                   <<totalStitchesToPickup, totalRows>>, repeat),
              Call("gcd", <<totalStitchesToPickup, totalRows>>,
                   repeat.repeats),
              Call("generateEvenDistribution",
                   <<repeat.cycleStitches, repeat.cycleRows>>,
                   repeat.pattern)>>)

\* Variant of calculatePickup: a count of zero is let through.
calculatePickupZeroAllowed(form) ==
    IF IsFalsy(form.personalGaugeH) \/ IsFalsy(form.personalGaugeV)
           \/ IsFalsy(form.patternGaugeH) \/ IsFalsy(form.patternGaugeV)
    THEN Outcome(TRUE, "Please enter all gauge values.", <<>>)
    ELSE IF IsFalsy(form.patternStitches) \/ IsFalsy(form.patternRows)
    THEN Outcome(TRUE,
             "Please enter the pattern's pick-up instruction (stitches per rows).",
             <<>>)
    ELSE IF IsFalsy(form.totalRows)
    THEN Outcome(TRUE, "Please enter the total rows along your edge.", <<>>)
    ELSE LET adjusted == adjustedCall(form)
             totalStitchesToPickup == pickupCount(form.totalRows, adjusted.ret)
         IN  IF adjusted.ret = Null
             THEN Outcome(TRUE,
                      "Could not calculate adjusted ratio. Please check your inputs.",
                      <<adjusted>>)
             ELSE IF totalStitchesToPickup < 0
             THEN Outcome(TRUE,
                      "The calculated pick-up count is too low. Please check your gauge values.",
                      <<adjusted>>)
             ELSE displayPickup(form, adjusted, totalStitchesToPickup)

\* calculatePickup of the integer-count variant, from the parsed inputs on.
calculatePickup(form) ==
    IF IsFalsy(form.personalGaugeH) \/ IsFalsy(form.personalGaugeV)
           \/ IsFalsy(form.patternGaugeH) \/ IsFalsy(form.patternGaugeV)
    THEN Outcome(TRUE, "Please enter all gauge values.", <<>>)
    ELSE IF IsFalsy(form.patternStitches) \/ IsFalsy(form.patternRows)
    THEN Outcome(TRUE,
             "Please enter the pattern's pick-up instruction (stitches per rows).",
             <<>>)
    ELSE IF IsFalsy(form.totalRows)
    THEN Outcome(TRUE, "Please enter the total rows along your edge.", <<>>)
    ELSE LET adjusted == adjustedCall(form)
             totalStitchesToPickup == pickupCount(form.totalRows, adjusted.ret)
         IN  IF adjusted.ret = Null
             THEN Outcome(TRUE,
                      "Could not calculate adjusted ratio. Please check your inputs.",
                      <<adjusted>>)
             ELSE IF totalStitchesToPickup < 1
             THEN Outcome(TRUE,
                      "The calculated pick-up count is too low. Please check your gauge values.",
                      <<adjusted>>)
             ELSE displayPickup(form, adjusted, totalStitchesToPickup)

\* The call of calculateGaugeCombination by calculateCombine, followed by
\* the calls that call makes when it reaches simplifyRatio.
combinationCalls(form) ==
    LET result ==
            calculateGaugeCombination(form.mainGaugeH, form.mainGaugeV,
                                      form.borderGaugeH, form.borderGaugeV,
                                      form.mainCount, form.pickupAlong)
        outer ==
            Call("calculateGaugeCombination",
                 <<form.mainGaugeH, form.mainGaugeV, form.borderGaugeH,
                   form.borderGaugeV, form.mainCount, form.pickupAlong>>,
                 result)
    IN  IF result = Null THEN <<outer>>
        ELSE <<outer,
               Call("simplifyRatio", <<result.borderStitches, result.mainCount>>,
                    result.simplified),
               Call("gcd", <<result.borderStitches, result.mainCount>>,
                    gcd(result.borderStitches, result.mainCount))>>

\* calculateCombine, from the parsed inputs on.
calculateCombine(form) ==
    IF IsFalsy(form.mainCount)
    THEN Outcome(TRUE, "Please enter the count on your main fabric edge.", <<>>)
    ELSE IF form.pickupAlong = "along-stitches"
                /\ (IsFalsy(form.mainGaugeH) \/ IsFalsy(form.borderGaugeH))
    THEN Outcome(TRUE, "Please enter stitches per 10cm for both fabrics.", <<>>)
    ELSE IF form.pickupAlong = "along-rows"
                /\ (IsFalsy(form.mainGaugeV) \/ IsFalsy(form.borderGaugeH))
    THEN Outcome(TRUE,
             "Please enter main fabric rows/10cm and border stitches/10cm.",
             <<>>)
    ELSE LET made == combinationCalls(form)
         IN  IF made[1].ret = Null
             THEN Outcome(TRUE, "Could not calculate. Please check your inputs.",
                          made)
             ELSE Outcome(FALSE, [kind |-> "result", result |-> made[1].ret],
                          made)

\* The values the fields of the combination form are parsed to, and the
\* two directions of the join-direction radio group.
CombineMainGaugeH == {DblZero, DblFromInt(2)}
CombineMainGaugeV == {NaN, DblFromInt(4)}
CombineBorderGaugeH == {DblZero, DblFromInt(1), DblFromInt(3)}
CombineBorderGaugeV == {NaN, DblFromInt(2)}
CombineMainCount ==
    {NaN, DblZero, DblFromInt(-3), DblFromInt(1), DblFromInt(4)}
JoinDirections == {"along-stitches", "along-rows"}

CombineForms ==
    [mainGaugeH : CombineMainGaugeH,
     mainGaugeV : CombineMainGaugeV,
     borderGaugeH : CombineBorderGaugeH,
     borderGaugeV : CombineBorderGaugeV,
     mainCount : CombineMainCount,
     pickupAlong : JoinDirections]

InitUI ==
    /\ IdleCore
    /\ NoCall
    /\ IdleUI
    /\ NoLoop

\* The runs of calculatePickup and calculateCombine: every form with its
\* outcome.
PickupRuns ==
    {[form |-> form, outcome |-> calculatePickup(form)] : form \in PickupForms}

CombineRuns ==
    {[form |-> form, outcome |-> calculateCombine(form)] :
        form \in CombineForms}

\* A click on the calculate button of the pick-up section, the form being
\* one of those of `runs`.
CalculatePickupOf(runs) ==
    \E run \in runs :
        /\ fn' = "calculatePickup"
        /\ args' = run.form
        /\ ret' = <<>>
        /\ pickupResultSection' = sectionAfter(pickupResultSection, run.outcome)
        /\ calls' = run.outcome.calls
        /\ UNCHANGED <<loopVars, combineResultSection, resultSection, swatchVars,
                       coreVars>>

\* A click on the calculate button of the combination section, the form
\* being one of those of `runs`.
CalculateCombineOf(runs) ==
    \E run \in runs :
        /\ fn' = "calculateCombine"
        /\ args' = run.form
        /\ ret' = <<>>
        /\ combineResultSection' =
               sectionAfter(combineResultSection, run.outcome)
        /\ calls' = run.outcome.calls
        /\ UNCHANGED <<loopVars, pickupResultSection, resultSection, swatchVars,
                       coreVars>>

CalculatePickup == CalculatePickupOf(PickupRuns)

CalculateCombine == CalculateCombineOf(CombineRuns)

NextUI ==
    \/ CalculatePickup
    \/ CalculateCombine

SpecUI == InitUI /\ [][NextUI]_vars

----------------------------------------------------------------------------
(* The size form *)

\* Math.round(x * 10) / 10
RoundToTenth(x) ==
    DblDiv(MathRoundNumber(DblMul(x, DblFromInt(10))), DblFromInt(10))

\* Math.round(x * 100) / 100
RoundToHundredth(x) ==
    DblDiv(MathRoundNumber(DblMul(x, DblFromInt(100))), DblFromInt(100))

\* The Number a null operand of an arithmetic operator is converted to.
ToNumber(x) == IF IsNull(x) THEN DblZero ELSE x

\* parseFloat("1e308"): 0x1.1ccf385ebc8a0p+1023, the binary64 number
\* nearest to 10^308.
Dbl1e308 ==
    [kind |-> "num", neg |-> FALSE, m |-> <<18592, 3031, 13262, 142>>, e |-> 971]

\* parseFloat("1e-16"): 10^16 is the exact product of 10^8 by itself, and
\* the quotient is rounded once.
Dbl1eMinus16 ==
    DblDiv(DblFromInt(1),
           DblMul(DblFromInt(100000000), DblFromInt(100000000)))

\* One row of the size list: the trimmed name and the parsed measurement
\* (NaN for an empty field).
SizeRow(name, measurement) == [name |-> name, measurement |-> measurement]

\* getSizes: the rows with a name or a measurement, a missing measurement
\* replaced by 0.
getSizesKept(row) == row.name # "" \/ ~IsFalsy(row.measurement)

RECURSIVE getSizesFrom(_, _)
getSizesFrom(rows, i) ==
    IF i > Len(rows) THEN <<>>
    ELSE (IF getSizesKept(rows[i])
          THEN <<[name |-> rows[i].name,
                  measurement |-> IF IsFalsy(rows[i].measurement)
                                  THEN DblZero ELSE rows[i].measurement]>>
          ELSE <<>>) \o getSizesFrom(rows, i + 1)

getSizes(rows) == getSizesFrom(rows, 1)

\* s.name && s.measurement
IsValidSize(s) == s.name # "" /\ ~IsFalsy(s.measurement)

\* The entry of analyzedSizes made of one valid size.
analyzeSize(personalGauge, patternGauge, desiredMeasurement, size) ==
    LET actualMeasurement ==
            calculateActualMeasurement(personalGauge, patternGauge,
                                       size.measurement)
        differenceFromDesired ==
            DblSub(ToNumber(actualMeasurement), desiredMeasurement)
    IN  [name |-> size.name,
         patternMeasurement |-> size.measurement,
         actualMeasurement |-> RoundToTenth(ToNumber(actualMeasurement)),
         differenceFromDesired |-> RoundToTenth(differenceFromDesired)]

\* The loop that chooses bestMatch: i is the entry looked at; bestMatch is
\* the position in analyzedSizes of the object the variable refers to, 0
\* while it is null.
RECURSIVE bestMatchLoop(_, _, _, _)
bestMatchLoop(analyzedSizes, i, bestMatch, smallestAbsDiff) ==
    IF i > Len(analyzedSizes) THEN bestMatch
    ELSE LET absDiff == MathAbs(analyzedSizes[i].differenceFromDesired)
         IN  IF JsLess(absDiff, smallestAbsDiff)
             THEN bestMatchLoop(analyzedSizes, i + 1, i, absDiff)
             ELSE bestMatchLoop(analyzedSizes, i + 1, bestMatch,
                                smallestAbsDiff)

\* analyzeAllSizes: an object with the field `error`, or the analysis.  The
\* field bestMatch refers to an entry of allSizes and is kept as its
\* position (0 for null).
analyzeAllSizes(personalGauge, patternGauge, desiredMeasurement, sizes) ==
    LET targetPatternMeasurement ==
            calculateTargetPatternMeasurement(personalGauge, patternGauge,
                                              desiredMeasurement)
        validSizes == SelectSeq(sizes, IsValidSize)
        analyzedSizes ==
            [i \in 1..Len(validSizes) |->
                analyzeSize(personalGauge, patternGauge, desiredMeasurement,
                            validSizes[i])]
    IN  IF IsFalsy(targetPatternMeasurement)
        THEN [error |-> "Missing required values"]
        ELSE IF Len(validSizes) = 0
        THEN [error |-> "No valid sizes entered"]
        ELSE [targetPatternMeasurement |->
                  RoundToTenth(targetPatternMeasurement),
              bestMatch |-> bestMatchLoop(analyzedSizes, 1, 0, Infinity(FALSE)),
              allSizes |-> analyzedSizes,
              gaugeRatio |->
                  RoundToHundredth(DblDiv(personalGauge, patternGauge))]

\* analysis.error is set
HasError(analysis) == "error" \in DOMAIN analysis

\* The sentence of displayResult about the gauges.
gaugeDesc(gaugeRatio) ==
    IF JsLess(DblDiv(DblFromInt(102), DblFromInt(100)), gaugeRatio)
    THEN [kind |-> "tighter",
          percent |-> MathRoundNumber(DblMul(DblSub(gaugeRatio, DblFromInt(1)),
                                             DblFromInt(100)))]
    ELSE IF JsLess(gaugeRatio, DblDiv(DblFromInt(98), DblFromInt(100)))
    THEN [kind |-> "looser",
          percent |-> MathRoundNumber(DblMul(DblSub(DblFromInt(1), gaugeRatio),
                                             DblFromInt(100)))]
    ELSE [kind |-> "matches"]

\* The sentence of displayResult about the measurement the best size gives.
matchDesc(bestMatch) ==
    LET absDiff == MathAbs(bestMatch.differenceFromDesired)
    IN  IF ~IsNaN(absDiff) /\ ~JsLess(DblFromInt(1), absDiff)
        THEN [kind |-> "very close", actual |-> bestMatch.actualMeasurement]
        ELSE IF JsLess(DblZero, bestMatch.differenceFromDesired)
        THEN [kind |-> "larger", actual |-> bestMatch.actualMeasurement,
              by |-> absDiff]
        ELSE [kind |-> "smaller", actual |-> bestMatch.actualMeasurement,
              by |-> absDiff]

\* One item of the size list of displayResult.
sizeItem(size, bestMatch) ==
    LET isRecommended == size.name = bestMatch.name
    IN  [name |-> size.name,
         recommended |-> isRecommended,
         patternMeasurement |-> size.patternMeasurement,
         actualMeasurement |-> size.actualMeasurement,
         differenceFromDesired |-> size.differenceFromDesired,
         plus |-> JsLess(DblZero, size.differenceFromDesired)]

\* What displayResult writes into resultContent, for an analysis whose
\* bestMatch is not null.
displayResult(analysis, personalGauge, patternGauge, desiredMeasurement) ==
    LET bestMatch == analysis.allSizes[analysis.bestMatch]
    IN  [kind |-> "result",
         bestSize |-> bestMatch.name,
         gaugeDesc |-> gaugeDesc(analysis.gaugeRatio),
         desiredMeasurement |-> desiredMeasurement,
         patternMeasurement |-> bestMatch.patternMeasurement,
         matchDesc |-> matchDesc(bestMatch),
         sizeList |-> [i \in 1..Len(analysis.allSizes) |->
                          sizeItem(analysis.allSizes[i], bestMatch)]]

\* The content of an outcome that ended in the TypeError of displayResult
\* reading a field of a null bestMatch: nothing is written.
Thrown == [kind |-> "TypeError"]

\* calculate, from the parsed inputs on (the handler of script.js; the one
\* of part_000, lines 539-574, is the same text).
calculate(form) ==
    LET sizes == getSizes(form.rows)
        analysis ==
            analyzeAllSizes(form.personalGauge, form.patternGauge,
                            form.desiredMeasurement, sizes)
        made ==
            <<Call("analyzeAllSizes",
                   <<form.personalGauge, form.patternGauge,
                     form.desiredMeasurement, sizes>>, analysis)>>
    IN  IF IsFalsy(form.personalGauge) \/ IsFalsy(form.patternGauge)
               \/ IsFalsy(form.desiredMeasurement)
        THEN Outcome(TRUE,
                 "Please fill in your gauge, pattern gauge, and desired measurement.",
                 <<>>)
        ELSE IF Len(sizes) = 0 \/ ~(\E i \in 1..Len(sizes) : IsValidSize(sizes[i]))
        THEN Outcome(TRUE,
                 "Please add at least one pattern size with a name and measurement.",
                 <<>>)
        ELSE IF HasError(analysis) THEN Outcome(TRUE, analysis.error, made)
        ELSE IF analysis.bestMatch = 0 THEN Outcome(FALSE, Thrown, made)
        ELSE Outcome(FALSE,
                 displayResult(analysis, form.personalGauge, form.patternGauge,
                               form.desiredMeasurement),
                 made)

\* The size section after a run: showError, or displayResult, whose first
\* statement has taken effect when it throws.
resultSectionAfter(section, outcome) ==
    IF ~outcome.error /\ outcome.content.kind = "TypeError"
    THEN [classes |-> section.classes \ {"hidden", "warning"},
          content |-> section.content]
    ELSE sectionAfter(section, outcome)

\* The values the fields of the size form are parsed to.
SizePersonalGauge == {NaN, DblFromInt(20), DblFromInt(22)}
SizePatternGauge == {DblZero, DblFromInt(20)}
SizeDesiredMeasurement == {NaN, DblFromInt(100), DblFromInt(101)}

\* 100.25, 99.75 and 100.04
Quarter(n) == DblDiv(DblFromInt(n), DblFromInt(4))
Hundredth(n) == DblDiv(DblFromInt(n), DblFromInt(100))

SizeRowLists ==
    {<<>>,
     <<SizeRow("S", NaN), SizeRow("", DblFromInt(100))>>,
     <<SizeRow("S", DblFromInt(90)), SizeRow("", NaN),
       SizeRow("M", DblFromInt(100)), SizeRow("L", DblFromInt(110))>>,
     <<SizeRow("S", DblFromInt(99)), SizeRow("M", DblFromInt(101))>>,
     <<SizeRow("S", Quarter(401)), SizeRow("M", Quarter(399))>>,
     <<SizeRow("S", Hundredth(10004)), SizeRow("M", DblFromInt(100))>>,
     <<SizeRow("M", DblFromInt(90)), SizeRow("M", DblFromInt(101))>>,
     <<SizeRow("S", DblFromInt(80)), SizeRow("M", DblFromInt(120)),
       SizeRow("S", DblFromInt(130))>>}

\* A measurement whose actual measurement overflows, and a target pattern
\* measurement that underflows to 0.
OverflowForm ==
    [personalGauge |-> DblFromInt(1), patternGauge |-> DblFromInt(2),
     desiredMeasurement |-> DblFromInt(1),
     rows |-> <<SizeRow("S", Dbl1e308)>>]

UnderflowForm ==
    [personalGauge |-> DblFromInt(1), patternGauge |-> Dbl1e308,
     desiredMeasurement |-> Dbl1eMinus16,
     rows |-> <<SizeRow("S", DblFromInt(1))>>]

SizeForms ==
    [personalGauge : SizePersonalGauge,
     patternGauge : SizePatternGauge,
     desiredMeasurement : SizeDesiredMeasurement,
     rows : SizeRowLists] \cup {OverflowForm, UnderflowForm}

\* The runs of calculate: every form with its outcome.
SizeRuns ==
    {[form |-> form, outcome |-> calculate(form)] : form \in SizeForms}

\* A click on the calculate button of the size section.
Calculate ==
    \E run \in SizeRuns :
        /\ fn' = "calculate"
        /\ args' = run.form
        /\ ret' = <<>>
        /\ resultSection' = resultSectionAfter(resultSection, run.outcome)
        /\ calls' = run.outcome.calls
        /\ UNCHANGED <<loopVars, pickupResultSection, combineResultSection, swatchVars,
                       coreVars>>

NextSizes == Calculate

SpecSizes == InitUI /\ [][NextSizes]_vars

----------------------------------------------------------------------------
(* The three result sections together *)

\* The pick-up and combination forms submitted beside the size form: a
\* missing gauge, a missing edge length or count, and complete forms.
SectionPickupForms ==
    {form \in PickupForms :
        /\ form.personalGaugeH \in {NaN, DblFromInt(2)}
        /\ form.personalGaugeV = DblFromInt(2)
        /\ form.patternGaugeV = DblFromInt(2)
        /\ form.patternStitches = DblFromInt(3)
        /\ form.patternRows = DblFromInt(4)
        /\ form.totalRows \in {DblZero, DblFromInt(6)}}

SectionCombineForms ==
    {form \in CombineForms :
        /\ form.mainGaugeH = DblFromInt(2)
        /\ form.mainGaugeV = DblFromInt(4)
        /\ form.borderGaugeH \in {DblZero, DblFromInt(1)}
        /\ form.borderGaugeV = DblFromInt(2)
        /\ form.mainCount \in {NaN, DblFromInt(4)}
        /\ form.pickupAlong = "along-stitches"}

SectionPickupRuns == {run \in PickupRuns : run.form \in SectionPickupForms}

SectionCombineRuns ==
    {run \in CombineRuns : run.form \in SectionCombineForms}

NextSections ==
    \/ Calculate
    \/ CalculatePickupOf(SectionPickupRuns)
    \/ CalculateCombineOf(SectionCombineRuns)

SpecSections == InitUI /\ [][NextSections]_vars

----------------------------------------------------------------------------
(* The swatch previews under gauge edits and view toggles *)

\* The values a gauge field of the combination section is edited to.
SwatchGaugeValues == {NaN, DblZero, DblFromInt(-2), DblFromInt(3)}

GaugeFields == {"mainH", "mainV", "borderH", "borderV"}

\* The swatches after updateCombineSwatchPreviews() has run in the given
\* mode on the given inputs.
SwatchesDrawn(mode, inputs) ==
    LET drawn == updateCombineSwatchPreviews(mode, inputs)
    IN  /\ mainSwatchPreview' = drawn.main
        /\ borderSwatchPreview' = drawn.border
        /\ swatchOverlayContainer' = drawn.overlay

\* An input event on one of the four gauge fields.
InputGauge ==
    \E field \in GaugeFields, value \in SwatchGaugeValues :
        /\ gaugeInputs' = [gaugeInputs EXCEPT ![field] = value]
        /\ SwatchesDrawn(currentViewMode, gaugeInputs')
        /\ UNCHANGED <<loopVars, currentViewMode, activeViewButtons, coreVars, callVars,
                       pickupResultSection, combineResultSection, calls,
                       resultSection>>

\* A click on a button of the view toggle.
ClickViewToggle ==
    \E view \in ViewModes :
        /\ activeViewButtons' = {view}
        /\ currentViewMode' = view
        /\ SwatchesDrawn(view, gaugeInputs)
        /\ UNCHANGED <<loopVars, gaugeInputs, coreVars, callVars, pickupResultSection,
                       combineResultSection, calls, resultSection>>

NextSwatch ==
    \/ InputGauge
    \/ ClickViewToggle

SpecSwatch == InitUI /\ [][NextSwatch]_vars

----------------------------------------------------------------------------
(* The loops of the core functions, one iteration at a time *)

\* Largest magnitude of an argument of the calls followed step by step.
MaxLoopArg == 6

LoopFunctions ==
    {"gcd", "generateEvenDistribution", "findMinimalRepeat",
     "calculateDistribution"}

\* gcd at the head of its while loop; Math.round is the identity on the
\* integers.  `iterations` counts the passes through the body.
gcdEntry(a, b) == [pc |-> "loop", a |-> a, b |-> b, iterations |-> 0]

\* Variant of gcdIterate: the two variables are exchanged and no remainder
\* is taken.
gcdIterateSwapOnly(l) == [l EXCEPT !.a = l.b, !.b = l.a]

\* One pass through the body of the while loop of gcd.
gcdIterate(l) ==
    [l EXCEPT !.a = l.b, !.b = JsRem(l.a, l.b),
              !.iterations = l.iterations + 1]

\* generateEvenDistribution at the head of its for loop.
generateEntry ==
    [pc |-> "loop", row |-> 0, stitchesPlaced |-> 0, result |-> <<>>]

\* One pass through the body of the for loop, row++ included.
generateIterate(totalStitches, totalRows, l) ==
    LET expectedStitches ==
            MathRound((l.row + 1) * totalStitches, totalRows)
        stitchesThisRow == expectedStitches - l.stitchesPlaced
    IN  [l EXCEPT !.row = l.row + 1,
                  !.stitchesPlaced = expectedStitches,
                  !.result = Append(l.result, stitchesThisRow)]

\* findMinimalRepeat at the head of its outer while loop, for a gcd g that
\* is not 0.
scanEntry(totalStitches, totalRows) ==
    LET g == gcd(totalStitches, totalRows)
    IN  [pc |-> "loop",
         pattern |-> generateEvenDistribution(totalStitches \div g,
                                              totalRows \div g),
         sequences |-> <<>>, i |-> 0, inner |-> FALSE, stitchCount |-> 0,
         rows |-> 0]

\* The outer loop is at its head with a slot left, or the inner loop is
\* running.
scanContinues(l) == l.inner \/ l.i < Len(l.pattern)

\* One step of the run-scanning loops: the outer loop enters a run, the
\* inner loop counts a row, or the inner loop ends and the run is pushed.
scanIterate(l) ==
    IF ~l.inner
    THEN [l EXCEPT !.stitchCount = l.pattern[l.i + 1], !.rows = 0,
                   !.inner = TRUE]
    ELSE IF l.i < Len(l.pattern) /\ l.pattern[l.i + 1] = l.stitchCount
    THEN [l EXCEPT !.rows = l.rows + 1, !.i = l.i + 1]
    ELSE [l EXCEPT !.inner = FALSE,
                   !.sequences = Append(l.sequences,
                                        [stitches |-> l.stitchCount,
                                         rows |-> l.rows])]

\* calculateDistribution before its first statement.
distributionStart ==
    [pc |-> "start", pattern |-> <<>>, remainingPickups |-> 0,
     remainingSkips |-> 0]

\* calculateDistribution at the head of its while loop; g divides both
\* counts.
distributionEntry(totalStitches, totalRows) ==
    LET skips == totalRows - totalStitches
        g == gcd(totalStitches, skips)
    IN  [pc |-> "loop", pattern |-> <<>>,
         remainingPickups |-> totalStitches \div g,
         remainingSkips |-> skips \div g]

\* One pass through the body of the while loop; ratio >= 1 compares the
\* two counts.
distributionIterate(l) ==
    IF l.remainingPickups > 0 /\ l.remainingSkips > 0
    THEN IF l.remainingPickups >= l.remainingSkips
         THEN [l EXCEPT !.pattern = Append(l.pattern,
                                           [type |-> "pickup", count |-> 1]),
                        !.remainingPickups = l.remainingPickups - 1]
         ELSE [l EXCEPT !.pattern = Append(l.pattern,
                                           [type |-> "skip", count |-> 1]),
                        !.remainingSkips = l.remainingSkips - 1]
    ELSE IF l.remainingPickups > 0
    THEN [l EXCEPT !.pattern = Append(l.pattern,
                                      [type |-> "pickup",
                                       count |-> l.remainingPickups]),
                   !.remainingPickups = 0]
    ELSE [l EXCEPT !.pattern = Append(l.pattern,
                                      [type |-> "skip",
                                       count |-> l.remainingSkips]),
                   !.remainingSkips = 0]

\* The for loop that merges neighbouring items of the same type.
RECURSIVE mergePattern(_, _, _)
mergePattern(pattern, j, mergedPattern) ==
    IF j > Len(pattern) THEN mergedPattern
    ELSE LET item == pattern[j]
             n == Len(mergedPattern)
         IN  IF n > 0 /\ mergedPattern[n].type = item.type
             THEN mergePattern(pattern, j + 1,
                      [mergedPattern EXCEPT
                          ![n].count = mergedPattern[n].count + item.count])
             ELSE mergePattern(pattern, j + 1, Append(mergedPattern, item))

\* The object calculateDistribution returns once its while loop has ended.
distributionResult(totalStitches, totalRows, pattern) ==
    LET skips == totalRows - totalStitches
        g == gcd(totalStitches, skips)
    IN  [totalStitches |-> totalStitches,
         totalRows |-> totalRows,
         cycleLength |-> (totalStitches \div g) + (skips \div g),
         pickupsPerCycle |-> totalStitches \div g,
         skipsPerCycle |-> skips \div g,
         pattern |-> mergePattern(pattern, 1, <<>>),
         cycles |-> g]

\* A call at its entry: the function, its arguments and its variables.
LoopCall(name, arguments, entry) ==
    fn = name /\ args = arguments /\ locals = entry

InitLoops ==
    /\ IdleCore
    /\ IdleUI
    /\ ret = <<>>
    /\ \/ \E a, b \in -MaxLoopArg..MaxLoopArg :
              LoopCall("gcd", <<a, b>>, gcdEntry(a, b))
       \/ \E totalStitches, totalRows \in 0..MaxLoopArg :
              LoopCall("generateEvenDistribution",
                       <<totalStitches, totalRows>>, generateEntry)
       \/ \E totalStitches \in 0..MaxLoopArg, totalRows \in 1..MaxLoopArg :
              LoopCall("findMinimalRepeat", <<totalStitches, totalRows>>,
                       scanEntry(totalStitches, totalRows))
       \/ \E totalStitches, totalRows \in 0..MaxLoopArg :
              LoopCall("calculateDistribution",
                       <<totalStitches, totalRows>>, distributionStart)

\* The call returns `value`; ret holds the values returned so far.
Return(value) ==
    /\ ret' = <<value>>
    /\ locals' = [locals EXCEPT !.pc = "done"]

\* The while loop of gcd: one more pass, or the return.
GcdStep ==
    /\ fn = "gcd" /\ locals.pc = "loop"
    /\ IF locals.b # 0
       THEN locals' = gcdIterate(locals) /\ UNCHANGED ret
       ELSE Return(locals.a)
    /\ UNCHANGED <<fn, args, coreVars, uiVars>>

\* The for loop of generateEvenDistribution: one more pass, or the return.
GenerateStep ==
    /\ fn = "generateEvenDistribution" /\ locals.pc = "loop"
    /\ IF locals.row < args[2]
       THEN locals' = generateIterate(args[1], args[2], locals)
                /\ UNCHANGED ret
       ELSE Return(locals.result)
    /\ UNCHANGED <<fn, args, coreVars, uiVars>>

\* The run-scanning loops of findMinimalRepeat: one more step, or the rest
\* of the function.
ScanStep ==
    /\ fn = "findMinimalRepeat" /\ locals.pc = "loop"
    /\ IF scanContinues(locals)
       THEN locals' = scanIterate(locals) /\ UNCHANGED ret
       ELSE Return([cycleStitches |-> args[1] \div gcd(args[1], args[2]),
                    cycleRows |-> args[2] \div gcd(args[1], args[2]),
                    repeats |-> gcd(args[1], args[2]),
                    pattern |-> locals.pattern,
                    sequences |-> locals.sequences,
                    description |-> describeSequences(locals.sequences)])
    /\ UNCHANGED <<fn, args, coreVars, uiVars>>

\* calculateDistribution: the check of its arguments, one more pass through
\* the while loop, or the rest of the function.
DistributionStep ==
    /\ fn = "calculateDistribution" /\ locals.pc \in {"start", "loop"}
    /\ IF locals.pc = "start"
       THEN IF args[1] >= args[2]
            THEN Return([error |-> "Cannot pick up more stitches than rows"])
            ELSE locals' = distributionEntry(args[1], args[2])
                     /\ UNCHANGED ret
       ELSE IF locals.remainingPickups > 0 \/ locals.remainingSkips > 0
       THEN locals' = distributionIterate(locals) /\ UNCHANGED ret
       ELSE Return(distributionResult(args[1], args[2], locals.pattern))
    /\ UNCHANGED <<fn, args, coreVars, uiVars>>

NextLoops ==
    \/ GcdStep
    \/ GenerateStep
    \/ ScanStep
    \/ DistributionStep

\* A call that has started runs on: the script is not interrupted.
SpecLoops == InitLoops /\ [][NextLoops]_vars /\ WF_vars(NextLoops)

----------------------------------------------------------------------------
(* The gauge functions applied to missing, zero and positive arguments *)

\* Largest positive value of an argument that may also be missing or zero.
MaxInput == 1

\* Largest main count, main stitch gauge and border stitch gauge of the
\* combinations of positive arguments.
MaxMainCount == 1
MaxMainGauge == 6
MaxBorderGauge == 9

\* An argument: missing (null or undefined), NaN, zero or positive.
Inputs == {Null, NaN, DblZero} \cup NumbersOf(1, MaxInput)

\* The pickupAlong argument: the two directions and any other value.
Directions == {"along-stitches", "along-rows", "other"}

\* <<mainGaugeH, mainGaugeV, borderGaugeH, borderGaugeV, mainCount,
\*   pickupAlong>>: every combination of missing, zero and positive
\* arguments, and the positive stitch gauges with row gauges of 1.
CombinationArgs ==
    (Inputs \X Inputs \X Inputs \X Inputs \X Inputs \X Directions)
        \cup (NumbersOf(1, MaxMainGauge) \X NumbersOf(1, 1)
                  \X NumbersOf(1, MaxBorderGauge) \X NumbersOf(1, 1)
                  \X NumbersOf(1, MaxMainCount)
                  \X {"along-stitches", "along-rows"})

InitGauge ==
    /\ IdleCore
    /\ IdleUI
    /\ NoLoop
    /\ NoCall

CallCalculateTargetPatternMeasurement ==
    /\ fn = "none"
    /\ \E a \in Inputs \X Inputs \X Inputs :
           /\ fn' = "calculateTargetPatternMeasurement"
           /\ args' = a
           /\ ret' = calculateTargetPatternMeasurement(a[1], a[2], a[3])
    /\ UNCHANGED <<loopVars, coreVars, uiVars>>

CallCalculateActualMeasurement ==
    /\ fn = "none"
    /\ \E a \in Inputs \X Inputs \X Inputs :
           /\ fn' = "calculateActualMeasurement"
           /\ args' = a
           /\ ret' = calculateActualMeasurement(a[1], a[2], a[3])
    /\ UNCHANGED <<loopVars, coreVars, uiVars>>

CallCalculateAdjustedPickupRatio ==
    /\ fn = "none"
    /\ \E a \in Inputs \X Inputs \X Inputs \X Inputs \X Inputs \X Inputs :
           /\ fn' = "calculateAdjustedPickupRatio"
           /\ args' = a
           /\ ret' = calculateAdjustedPickupRatio(a[1], a[2], a[3], a[4],
                                                  a[5], a[6])
    /\ UNCHANGED <<loopVars, coreVars, uiVars>>

CallCalculateGaugeCombination ==
    /\ fn = "none"
    /\ \E a \in CombinationArgs :
           /\ fn' = "calculateGaugeCombination"
           /\ args' = a
           /\ ret' = calculateGaugeCombination(a[1], a[2], a[3], a[4], a[5],
                                               a[6])
    /\ UNCHANGED <<loopVars, coreVars, uiVars>>

NextGauge ==
    \/ CallCalculateTargetPatternMeasurement
    \/ CallCalculateActualMeasurement
    \/ CallCalculateAdjustedPickupRatio
    \/ CallCalculateGaugeCombination

SpecGauge == InitGauge /\ [][NextGauge]_vars

----------------------------------------------------------------------------
(* Vocabulary of the properties *)

RECURSIVE SumSeq(_)
SumSeq(seq) == IF Len(seq) = 0 THEN 0 ELSE Head(seq) + SumSeq(Tail(seq))

SeqMax(seq) == CHOOSE m \in {seq[j] : j \in DOMAIN seq} :
                   \A j \in DOMAIN seq : seq[j] <= m

SeqMin(seq) == CHOOSE m \in {seq[j] : j \in DOMAIN seq} :
                   \A j \in DOMAIN seq : m <= seq[j]

\* n back-to-back copies of seq.
RECURSIVE Repeat(_, _)
Repeat(seq, n) == IF n <= 0 THEN <<>> ELSE seq \o Repeat(seq, n - 1)

\* The greatest common divisor of two positive integers, by its definition.
Divides(d, n) == n % d = 0
GreatestCommonDivisor(a, b) ==
    CHOOSE d \in 1..a : /\ Divides(d, a) /\ Divides(d, b)
                        /\ \A e \in 1..a : Divides(e, a) /\ Divides(e, b) => e <= d

\* seq is its first len entries repeated Len(seq)/len times.
IsRepeatOfPrefix(seq, len) ==
    /\ len \in 1..Len(seq)
    /\ Divides(len, Len(seq))
    /\ seq = Repeat(SubSeq(seq, 1, len), Len(seq) \div len)

\* The placement a run list stands for: each value repeated length times.
RECURSIVE ExpandRuns(_)
ExpandRuns(runList) ==
    IF Len(runList) = 0 THEN <<>>
    ELSE Repeat(<<Head(runList).value>>, Head(runList).length)
             \o ExpandRuns(Tail(runList))

\* A run list is faithful to a placement: lengths >= 1 summing to the
\* placement length, expansion equal to the placement, adjacent runs of
\* different values.
FaithfulRuns(runList, placement) ==
    /\ \A j \in DOMAIN runList : runList[j].length >= 1
    /\ SumSeq([j \in DOMAIN runList |-> runList[j].length]) = Len(placement)
    /\ ExpandRuns(runList) = placement
    /\ \A j \in 1..(Len(runList) - 1) : runList[j].value # runList[j + 1].value

\* The run lists of the two describers in the common {value, length} form.
RunsOfInfo == [j \in DOMAIN distributionInfo.runs |->
                 [value |-> distributionInfo.runs[j].stitchesPerRow,
                  length |-> distributionInfo.runs[j].rows]]
RunsOfRepeat == [j \in DOMAIN repeatPattern.sequences |->
                   [value |-> repeatPattern.sequences[j].stitches,
                    length |-> repeatPattern.sequences[j].rows]]

Generated == "generateEvenDistribution" \in called
GeneratedBool == "generateEvenDistributionBool" \in called
Described == "describeDistribution" \in called
Reduced == "findMinimalRepeat" \in called

----------------------------------------------------------------------------
(* Properties *)

\* C1 (Conservation): for items >= 0 and slots >= 1 the entries of
\* generateEvenDistribution(items, slots) sum to exactly items.
C1_Conservation ==
    Generated => SumSeq(distribution) = argStitches

\* A placement with more items than slots, not a multiple of them.
C1_Witness ==
    /\ Generated
    /\ argStitches = 7 /\ argRows = 3
    /\ SumSeq(distribution) = 7

\* C2 (Evenness): the largest and the smallest entry of
\* generateEvenDistribution(items, slots) differ by at most 1.
C2_Evenness ==
    Generated => SeqMax(distribution) - SeqMin(distribution) <= 1

\* A placement in which both the larger and the smaller count occur.
C2_Witness ==
    /\ Generated
    /\ argStitches > argRows
    /\ SeqMax(distribution) - SeqMin(distribution) = 1
    /\ SeqMin(distribution) >= 2

\* C3 (Cycle invariant): for items >= 1 and slots >= 1, with
\* g = gcd(items, slots), the full placement is exactly g back-to-back
\* copies of the cycle placement findMinimalRepeat returns as `pattern`,
\* with repeats = g.
C3_CycleInvariant ==
    (Generated /\ Reduced /\ argStitches >= 1) =>
        /\ repeatPattern.repeats = GreatestCommonDivisor(argStitches, argRows)
        /\ Len(repeatPattern.pattern) * repeatPattern.repeats = argRows
        /\ distribution = Repeat(repeatPattern.pattern, repeatPattern.repeats)

\* A full placement made of several copies of a cycle that is not constant.
C3_Witness ==
    /\ Generated /\ Reduced
    /\ repeatPattern.repeats >= 2
    /\ Len(repeatPattern.sequences) >= 2
    /\ distribution = Repeat(repeatPattern.pattern, repeatPattern.repeats)

\* C4 (Minimality of the repeat): cycleRows = slots / gcd(items, slots) is
\* the smallest block length dividing slots whose repetition gives the full
\* placement; no shorter block does.
C4_MinimalRepeat ==
    (Generated /\ Reduced /\ argStitches >= 1) =>
        /\ repeatPattern.cycleRows * GreatestCommonDivisor(argStitches, argRows)
               = argRows
        /\ IsRepeatOfPrefix(distribution, repeatPattern.cycleRows)
        /\ \A len \in 1..(repeatPattern.cycleRows - 1) :
               ~IsRepeatOfPrefix(distribution, len)

\* A reduced cycle longer than one row and shorter than the placement, with
\* shorter divisors of the row count to rule out.
C4_Witness ==
    /\ Generated /\ Reduced
    /\ argStitches = 6 /\ argRows = 16
    /\ repeatPattern.cycleRows = 8
    /\ IsRepeatOfPrefix(distribution, 8)
    /\ ~IsRepeatOfPrefix(distribution, 4)

\* C5 (Cycle reduction): findMinimalRepeat returns repeats = gcd(items,
\* slots), cycleStitches = items / repeats, cycleRows = slots / repeats,
\* coprime; (6, 16) gives cycleStitches 3, cycleRows 8, repeats 2.
C5_CycleReduction ==
    (Reduced /\ argStitches >= 1) =>
        /\ repeatPattern.repeats = GreatestCommonDivisor(argStitches, argRows)
        /\ repeatPattern.cycleStitches * repeatPattern.repeats = argStitches
        /\ repeatPattern.cycleRows * repeatPattern.repeats = argRows
        /\ GreatestCommonDivisor(repeatPattern.cycleStitches,
                                 repeatPattern.cycleRows) = 1
        /\ (argStitches = 6 /\ argRows = 16) =>
               /\ repeatPattern.cycleStitches = 3
               /\ repeatPattern.cycleRows = 8
               /\ repeatPattern.repeats = 2

\* The reduction of (6, 16).
C5_Witness ==
    /\ Reduced
    /\ argStitches = 6 /\ argRows = 16
    /\ repeatPattern.repeats = 2

\* C6 (Run reconstruction): the run lists of describeDistribution (`runs`)
\* and of findMinimalRepeat (`sequences`) have lengths >= 1 that sum to the
\* placement length, expand to the placement exactly, and have no two
\* adjacent runs of the same value.
C6_RunReconstruction ==
    /\ Described => FaithfulRuns(RunsOfInfo, distributionInfo.distribution)
    /\ Reduced => FaithfulRuns(RunsOfRepeat, repeatPattern.pattern)

\* Both describers have produced a list of several runs, one of them longer
\* than a row.
C6_Witness ==
    /\ Described /\ Reduced
    /\ Len(distributionInfo.runs) >= 3
    /\ Len(repeatPattern.sequences) >= 3
    /\ \E j \in DOMAIN distributionInfo.runs : distributionInfo.runs[j].rows >= 2
    /\ \E j \in DOMAIN repeatPattern.sequences :
           repeatPattern.sequences[j].rows >= 2

\* C7 (Shape): generateEvenDistribution(items, slots) has exactly slots
\* entries, each a non-negative integer.
C7_Shape ==
    Generated =>
        /\ Len(distribution) = argRows
        /\ \A j \in DOMAIN distribution : distribution[j] \in Nat

\* A placement over several slots holding zeros and non-zeros.
C7_Witness ==
    /\ Generated
    /\ argRows >= 2
    /\ Len(distribution) = argRows
    /\ \E j \in DOMAIN distribution : distribution[j] = 0
    /\ \E j \in DOMAIN distribution : distribution[j] > 0

\* C8, as stated: generateEvenDistribution(3, 8) yields [0,1,0,0,1,0,0,1].
C8_AsStated ==
    (Generated /\ argStitches = 3 /\ argRows = 8) =>
        distribution = <<0, 1, 0, 0, 1, 0, 0, 1>>

\* C8 (Scenario, amended): generateEvenDistribution(3, 8) yields
\* [0,1,0,1,0,0,1,0], the deltas of the cumulative targets 0,1,1,2,2,2,3,3.
C8_Scenario ==
    (Generated /\ argStitches = 3 /\ argRows = 8) =>
        distribution = <<0, 1, 0, 1, 0, 0, 1, 0>>

\* 3 items have been placed over 8 slots.
C8_Witness ==
    /\ Generated
    /\ argStitches = 3 /\ argRows = 8
    /\ Len(distribution) = 8

\* C9, as stated: findMinimalRepeat(5, 5).description is
\* "Pick up 1 from each of 5 rows".
C9_AsStated ==
    (Reduced /\ argStitches = 5 /\ argRows = 5) =>
        repeatPattern.description = "Pick up 1 from each of 5 rows"

\* C9 (Scenario, amended): findMinimalRepeat(5, 5) reduces to a cycle of one
\* row repeated 5 times, and its description is
\* "Pick up 1 from each of 1 row".
C9_Scenario ==
    (Reduced /\ argStitches = 5 /\ argRows = 5) =>
        /\ repeatPattern.description = "Pick up 1 from each of 1 row"
        /\ repeatPattern.repeats = 5
        /\ repeatPattern.sequences = <<[stitches |-> 1, rows |-> 1]>>

\* 5 items over 5 slots have been reduced and described.
C9_Witness ==
    /\ Reduced
    /\ argStitches = 5 /\ argRows = 5
    /\ Len(repeatPattern.sequences) = 1

\* C10 (Boolean special case): for 0 <= items <= slots the boolean and the
\* integer-count generateEvenDistribution agree slot by slot (true exactly
\* where the count is 1, false exactly where it is 0), and the integer
\* variant produces no count other than 0 or 1.
C10_BooleanSpecialCase ==
    (Generated /\ GeneratedBool /\ argStitches <= argRows) =>
        /\ Len(boolDistribution) = Len(distribution)
        /\ \A j \in DOMAIN distribution :
               /\ distribution[j] \in {0, 1}
               /\ boolDistribution[j] = (distribution[j] = 1)

\* Both variants have placed fewer items than slots, with picks and skips.
C10_Witness ==
    /\ Generated /\ GeneratedBool
    /\ 0 < argStitches /\ argStitches < argRows
    /\ \E j \in DOMAIN boolDistribution : boolDistribution[j]
    /\ \E j \in DOMAIN boolDistribution : ~boolDistribution[j]

\* C11 (Edge cases): for slots >= 1, items = 0 gives an all-zero sequence;
\* items = slots gives 1 in every slot; 0 < items < slots gives only 0 and 1
\* entries; items > slots gives at least one slot holding 2 or more and no
\* slot holding 0.
C11_EdgeCases ==
    Generated =>
        /\ argStitches = 0 =>
               \A j \in DOMAIN distribution : distribution[j] = 0
        /\ argStitches = argRows =>
               \A j \in DOMAIN distribution : distribution[j] = 1
        /\ (0 < argStitches /\ argStitches < argRows) =>
               \A j \in DOMAIN distribution : distribution[j] \in {0, 1}
        /\ argStitches > argRows =>
               /\ \E j \in DOMAIN distribution : distribution[j] >= 2
               /\ \A j \in DOMAIN distribution : distribution[j] # 0

\* More items than slots, placed with at least one slot of 2 or more and
\* slots of exactly 1.
C11_Witness ==
    /\ Generated
    /\ argStitches > argRows /\ argRows >= 3
    /\ \E j \in DOMAIN distribution : distribution[j] >= 2
    /\ \E j \in DOMAIN distribution : distribution[j] = 1

----------------------------------------------------------------------------
(* Properties of the rational reducer *)

\* The greatest common divisor of the magnitudes of two integers that are
\* not both zero, by its definition.
MagnitudeGCD(a, b) ==
    LET top == IF Abs(a) > Abs(b) THEN Abs(a) ELSE Abs(b)
        Common(d) == Abs(a) % d = 0 /\ Abs(b) % d = 0
    IN  CHOOSE d \in 1..top : Common(d) /\ \A c \in 1..top : Common(c) => c <= d

\* The integer a Number holds, for a finite Number.
IntegerOf(x) == DblMathRound(x)
IsIntegerNumber(x) == IsFinite(x) /\ DblFromInt(DblMathRound(x)) = x

GcdReturned == fn = "gcd" /\ ~(args[1] = 0 /\ args[2] = 0)

\* C12, as stated: for all integers a and b not both zero, negative ones
\* included, gcd(a, b) is the greatest common divisor of |a| and |b|, a
\* positive integer, and gcd(a, 0) is a.
C12_AsStated ==
    GcdReturned =>
        /\ ret = MagnitudeGCD(args[1], args[2])
        /\ ret > 0
        /\ args[2] = 0 => ret = args[1]

\* C12 (gcd, amended): for all integers a and b not both zero, gcd(a, b) is
\* an integer whose magnitude is the greatest common divisor of |a| and
\* |b|; it is positive when a and b are both non-negative (it may be
\* negative otherwise), and gcd(a, 0) is a.
C12_Gcd ==
    GcdReturned =>
        /\ Abs(ret) = MagnitudeGCD(args[1], args[2])
        /\ (args[1] >= 0 /\ args[2] >= 0) => ret > 0
        /\ args[2] = 0 => ret = args[1]

\* gcd(4, -6) has returned -2.
C12_Witness ==
    /\ fn = "gcd"
    /\ args = <<4, -6>>
    /\ ret = -2

\* C13 (simplifyRatio): for non-negative integers a and b not both zero,
\* simplifyRatio(a, b) returns integers (a', b') in lowest terms:
\* GCD(a', b') = 1 and a' * b = a * b'; simplifyRatio(9, 6) is {a: 3, b: 2}.
C13_SimplifyRatio ==
    (/\ fn = "simplifyRatio"
     /\ args[1] >= 0 /\ args[2] >= 0
     /\ ~(args[1] = 0 /\ args[2] = 0)) =>
        /\ IsIntegerNumber(ret.a) /\ IsIntegerNumber(ret.b)
        /\ MagnitudeGCD(IntegerOf(ret.a), IntegerOf(ret.b)) = 1
        /\ IntegerOf(ret.a) * args[2] = args[1] * IntegerOf(ret.b)
        /\ args = <<9, 6>> => (IntegerOf(ret.a) = 3 /\ IntegerOf(ret.b) = 2)

\* simplifyRatio(9, 6) has returned.
C13_Witness ==
    /\ fn = "simplifyRatio"
    /\ args = <<9, 6>>
    /\ ret.a = DblFromInt(3)

----------------------------------------------------------------------------
(* Properties of the gauge conversions *)

\* The finite Number x >= 0 differs from the positive rational num / den by
\* at most num / den * 2^(-bits):  |x * den - num| * 2^bits <= num.
NumberNear(x, num, den, bits) ==
    /\ IsFinite(x) /\ ~x.neg /\ ~IsZero(x)
    /\ LET up == IF x.e > 0 THEN x.e ELSE 0
           down == IF x.e < 0 THEN -x.e ELSE 0
           left == BigShl(BigMulInt(x.m, den), up)
           right == BigShl(BigFromInt(num), down)
           diff == IF BigCmp(left, right) >= 0 THEN BigSub(left, right)
                   ELSE BigSub(right, left)
       IN  BigCmp(BigShl(diff, bits), right) <= 0

RoundTripDone == fn = "calculateActualMeasurement"

\* C14, as stated: for positive p, q and d,
\* calculateActualMeasurement(p, q, calculateTargetPatternMeasurement(p, q, d))
\* equals d.
C14_AsStated ==
    RoundTripDone => ret = args[3]

\* C14 (Ratio inverse, amended): for positive p, q and d the round trip
\* returns d up to floating-point rounding: a Number within the relative
\* error 2^-50 of d (not always d itself: p = 1, q = 3, d = 7 gives
\* 6.999999999999999).
C14_RatioInverse ==
    RoundTripDone => NumberNear(ret, DblMathRound(args[3]), 1, 50)

\* The round trip of p = 1, q = 3, d = 7 has returned a Number other than 7.
C14_Witness ==
    /\ RoundTripDone
    /\ args = <<DblFromInt(1), DblFromInt(3), DblFromInt(7)>>
    /\ ret # DblFromInt(7)
    /\ DblLess(ret, DblFromInt(7))

----------------------------------------------------------------------------
(* Properties of the pick-up form, boolean variant *)

\* The functions of the distribution engine.
EngineFunctions ==
    {"describeDistribution", "findMinimalRepeat", "generateEvenDistribution"}

EngineCalled == \E j \in DOMAIN calls : calls[j].fn \in EngineFunctions

PickupSubmitted == fn = "calculatePickup"

\* The submitted form has a pick-up ratio and a row count to multiply it by.
RatioApplies ==
    /\ PickupSubmitted
    /\ ~IsNaN(args.totalRows)
    /\ adjustedCall(args).ret # Null

\* Math.round(totalRows * ratio) of the submitted form.
RoundedCount == pickupCount(args.totalRows, adjustedCall(args).ret)

PickupErrorShown ==
    /\ "warning" \in pickupResultSection.classes
    /\ "hidden" \notin pickupResultSection.classes
    /\ pickupResultSection.content.kind = "error"

\* C15 (NoMultiPickInBooleanVariant): whenever the rounded product of the
\* total rows and the adjusted ratio is at least the total rows, the
\* boolean-variant calculatePickup shows an error and has called none of
\* describeDistribution, findMinimalRepeat and generateEvenDistribution.
C15_NoMultiPickInBooleanVariant ==
    (RatioApplies /\ RoundedCount >= DblMathRound(args.totalRows))
        => (PickupErrorShown /\ ~EngineCalled)

\* A count of 7 for 6 rows is refused with the message about the row count.
C15_Witness ==
    /\ RatioApplies
    /\ DblMathRound(args.totalRows) = 6
    /\ RoundedCount = 7
    /\ PickupErrorShown
    /\ pickupResultSection.content.message =
           "The calculated pick-up count exceeds your row count. This would mean picking up more than one stitch per row, which isn't possible for vertical edges."
    /\ ~EngineCalled

----------------------------------------------------------------------------
(* Properties of the forms, integer-count variant *)

CallsOf(name) == {j \in DOMAIN calls : calls[j].fn = name}

----------------------------------------------------------------------------
(* Properties of the text rendering *)

\* The text of a single run, as the rendering rules give it.
SingleRunText(run) ==
    (IF run.value = 0 THEN "Skip "
     ELSE "Pick up " \o ToString(run.value) \o " from each of ")
        \o ToString(run.length)
        \o (IF run.length = 1 THEN " row" ELSE " rows")

\* The fragment of one run among several.
FragmentText(run) ==
    IF run.value = 0 THEN "skip " \o ToString(run.length)
    ELSE IF run.length = 1 THEN "pick up " \o ToString(run.value)
    ELSE "pick up " \o ToString(run.value) \o " × " \o ToString(run.length)
             \o " rows"

\* The fragments of the first n runs, in run order, joined by the arrow.
RECURSIVE ArrowText(_, _)
ArrowText(runs, n) ==
    IF n = 1 THEN FragmentText(runs[1])
    ELSE ArrowText(runs, n - 1) \o " → " \o FragmentText(runs[n])

\* C17 (Text rendering): the description of findMinimalRepeat follows the
\* run list of the cycle: a single run reads "Skip L row(s)" or
\* "Pick up V from each of L row(s)", with "rows" unless L is 1; several runs
\* read as their fragments "skip L", "pick up V" (L = 1) or
\* "pick up V × L rows" (L > 1), in run order, joined by " → ".
C17_TextRendering ==
    Reduced =>
        /\ FaithfulRuns(RunsOfRepeat, repeatPattern.pattern)
        /\ repeatPattern.description =
               IF Len(RunsOfRepeat) = 1
               THEN SingleRunText(RunsOfRepeat[1])
               ELSE ArrowText(RunsOfRepeat, Len(RunsOfRepeat))

\* 3 items over 4 slots: one fragment of each kind.
C17_Witness ==
    /\ Reduced
    /\ argStitches = 3 /\ argRows = 4
    /\ repeatPattern.description = "pick up 1 × 2 rows → skip 1 → pick up 1"

----------------------------------------------------------------------------
(* Properties of the pick-up ratio *)

\* The Number nearest to the rational num / den.
NumberOf(num, den) == DblDiv(DblFromInt(num), DblFromInt(den))

\* The neighbours of a positive Number: the next Number towards zero and
\* the next one away from it.
NumberBelow(x) ==
    IF BigBitLen(BigSub(x.m, <<1>>)) = MantissaBits
    THEN [x EXCEPT !.m = BigSub(x.m, <<1>>)]
    ELSE [x EXCEPT !.m = BigSub(BigShl(x.m, 1), <<1>>), !.e = x.e - 1]

NumberAbove(x) ==
    IF BigBitLen(BigAdd(x.m, <<1>>)) = MantissaBits
    THEN [x EXCEPT !.m = BigAdd(x.m, <<1>>)]
    ELSE [x EXCEPT !.m = BigShr(BigAdd(x.m, <<1>>), 1), !.e = x.e + 1]

\* calculatePickup has called calculateAdjustedPickupRatio with non-zero
\* inputs.
RatioReturned ==
    /\ PickupSubmitted
    /\ calls # <<>>
    /\ calls[1].fn = "calculateAdjustedPickupRatio"
    /\ calls[1].ret # Null

\* C18, as stated: rawStitches, rawRows and ratio are the stated quotients;
\* the scenario gives 21.6, 160/7 and 0.945.
C18_AsStated ==
    RatioReturned =>
        LET adjusted == calls[1].ret
            stitches == IntegerOf(args.patternStitches)
            rows == IntegerOf(args.patternRows)
            personalH == IntegerOf(args.personalGaugeH)
            personalV == IntegerOf(args.personalGaugeV)
            patternH == IntegerOf(args.patternGaugeH)
            patternV == IntegerOf(args.patternGaugeV)
        IN  /\ adjusted.rawStitches = NumberOf(stitches * personalH, patternH)
            /\ adjusted.rawRows = NumberOf(rows * personalV, patternV)
            /\ adjusted.ratio = NumberOf(stitches * personalH * patternV,
                                         patternH * rows * personalV)
            /\ args = ScenarioForm =>
                   /\ adjusted.rawStitches = NumberOf(108, 5)
                   /\ adjusted.rawRows = NumberOf(160, 7)
                   /\ adjusted.ratio = NumberOf(189, 200)

\* C18 (Pickup-ratio adjustment, amended): for non-zero inputs rawStitches,
\* rawRows and ratio are the stated quotients up to a relative error of
\* 2^-50; calculatePickup shows a result exactly when
\* Math.round(totalRows * ratio) is at least 1 and shows that number as the
\* pick-up count; in the scenario rawStitches is the Number just below 21.6,
\* rawRows the Number just below 160/7 and ratio the Number just above 0.945.
C18_PickupRatio ==
    RatioReturned =>
        LET adjusted == calls[1].ret
            stitches == IntegerOf(args.patternStitches)
            rows == IntegerOf(args.patternRows)
            personalH == IntegerOf(args.personalGaugeH)
            personalV == IntegerOf(args.personalGaugeV)
            patternH == IntegerOf(args.patternGaugeH)
            patternV == IntegerOf(args.patternGaugeV)
            rounded == DblMathRound(DblMul(args.totalRows, adjusted.ratio))
            content == pickupResultSection.content
        IN  /\ NumberNear(adjusted.rawStitches, stitches * personalH, patternH,
                          50)
            /\ NumberNear(adjusted.rawRows, rows * personalV, patternV, 50)
            /\ NumberNear(adjusted.ratio, stitches * personalH * patternV,
                          patternH * rows * personalV, 50)
            /\ content.kind = "result" <=> rounded >= 1
            /\ content.kind = "result" =>
                   content.totalStitchesToPickup = rounded
            /\ args = ScenarioForm =>
                   /\ adjusted.rawStitches = NumberBelow(NumberOf(108, 5))
                   /\ adjusted.rawRows = NumberBelow(NumberOf(160, 7))
                   /\ adjusted.ratio = NumberAbove(NumberOf(189, 200))

\* The scenario form has been submitted for an edge of 20 rows: 19 stitches.
C18_Witness ==
    /\ RatioReturned
    /\ args = ScenarioForm
    /\ calls[1].ret.rawStitches # NumberOf(108, 5)
    /\ pickupResultSection.content.kind = "result"
    /\ pickupResultSection.content.totalStitchesToPickup = 19

----------------------------------------------------------------------------
(* Properties of the gauge functions *)

CombinationReturned == fn = "calculateGaugeCombination"

\* A positive Number
IsPositive(x) == IsFinite(x) /\ ~IsZero(x) /\ ~x.neg

\* calculateGaugeCombination was applied to positive numbers and one of the
\* two directions.
PositiveCombination ==
    /\ CombinationReturned
    /\ \A j \in 1..5 : IsPositive(args[j])
    /\ args[6] \in {"along-stitches", "along-rows"}

\* a:b is the ratio stitches:count in lowest terms.
LowestTerms(simplified, stitches, count) ==
    /\ IsIntegerNumber(simplified.a) /\ IsIntegerNumber(simplified.b)
    /\ IntegerOf(simplified.a) * count = IntegerOf(simplified.b) * stitches
    /\ IntegerOf(simplified.b) > 0
    /\ MagnitudeGCD(IntegerOf(simplified.a), IntegerOf(simplified.b)) = 1

\* C19 (Border combination): for positive inputs borderStitches is
\* round(mainCount * borderGaugeH / mainGauge), mainGauge being mainGaugeH
\* along stitches and mainGaugeV along rows; the result is the one obtained
\* with borderGaugeV and the other main gauge replaced by 1; `simplified` is
\* borderStitches:mainCount in lowest terms; `increase` holds exactly when
\* borderStitches > mainCount.
C19_BorderCombination ==
    PositiveCombination =>
        LET alongStitches == args[6] = "along-stitches"
            mainGauge == IntegerOf(IF alongStitches THEN args[1] ELSE args[2])
            borderGaugeH == IntegerOf(args[3])
            mainCount == IntegerOf(args[5])
            one == DblFromInt(1)
        IN  /\ ret # Null
            /\ ret.borderStitches =
                   MathRound(mainCount * borderGaugeH, mainGauge)
            /\ ret = calculateGaugeCombination(
                         IF alongStitches THEN args[1] ELSE one,
                         IF alongStitches THEN one ELSE args[2],
                         args[3], one, args[5], args[6])
            /\ LowestTerms(ret.simplified, ret.borderStitches, mainCount)
            /\ ret.increase <=> ret.borderStitches > mainCount

\* The arguments a call needs: all three, all six, or for a combination
\* mainCount, borderGaugeH and the main gauge of the direction.
NeededArgs ==
    IF fn = "calculateGaugeCombination"
    THEN IF args[6] = "along-stitches" THEN <<args[5], args[1], args[3]>>
         ELSE IF args[6] = "along-rows" THEN <<args[5], args[2], args[3]>>
         ELSE <<Null>>
    ELSE args

\* An argument the call needs is missing, NaN or zero, or the direction is
\* not one of the two.
InputMissing ==
    \E j \in DOMAIN NeededArgs :
        \/ NeededArgs[j] = Null
        \/ NeededArgs[j] = NaN
        \/ NeededArgs[j] = DblZero

\* The numbers a call returned.
NumbersReturned ==
    IF fn = "calculateAdjustedPickupRatio"
    THEN {ret.rawStitches, ret.rawRows, ret.ratio}
    ELSE IF fn = "calculateGaugeCombination"
    THEN {ret.measurement, ret.ratio, ret.simplified.a, ret.simplified.b}
    ELSE {ret}

----------------------------------------------------------------------------
(* Properties of the cumulative targets, the windows and the seam *)

\* The number of items placed once the first n slots have been processed.
PlacedAfter(n) == SumSeq(SubSeq(distribution, 1, n))

\* k is num / den rounded to the nearest integer, half rounded up (den > 0).
IsRoundHalfUp(k, num, den) ==
    /\ 2 * den * k <= 2 * num + den
    /\ 2 * num + den < 2 * den * (k + 1)

\* C21 (Cumulative re-anchoring): after slot index i of
\* generateEvenDistribution has been processed, the number of items placed
\* so far is round((i+1)*items/slots), half rounded up, so every prefix
\* total is within 1/2 of the proportional target (i+1)*items/slots.
C21_Reanchoring ==
    Generated =>
        \A n \in 1..argRows :
            /\ IsRoundHalfUp(PlacedAfter(n), n * argStitches, argRows)
            /\ Abs(2 * argRows * PlacedAfter(n) - 2 * n * argStitches)
                   <= argRows

\* 5 items over 10 slots: the targets 1/2, 3/2, ... are all ties, each
\* rounded up.
C21_Witness ==
    /\ Generated
    /\ argStitches = 5 /\ argRows = 10
    /\ \A n \in 1..10 : 2 * PlacedAfter(n) = n + (n % 2)

\* The total of the w slots that follow the first `before` slots.
WindowTotal(before, w) == PlacedAfter(before + w) - PlacedAfter(before)

\* C25 (Balanced windows): for every window length w with 1 <= w <= slots,
\* the totals of any two windows of w consecutive slots of
\* generateEvenDistribution(items, slots) differ by at most 1.
C25_BalancedWindows ==
    Generated =>
        \A w \in 1..argRows :
            \A a, b \in 0..(argRows - w) :
                WindowTotal(a, w) - WindowTotal(b, w) <= 1

\* 7 items over 5 slots: the windows of 3 slots hold 4 or 5 items.
C25_Witness ==
    /\ Generated
    /\ argStitches = 7 /\ argRows = 5
    /\ {WindowTotal(a, 3) : a \in 0..2} = {4, 5}

\* A run list with adjacent runs of equal value made into one run.
RECURSIVE MergeRuns(_)
MergeRuns(runList) ==
    IF Len(runList) <= 1 THEN runList
    ELSE LET rest == MergeRuns(Tail(runList))
         IN  IF Head(runList).value = Head(rest).value
             THEN <<[value |-> Head(runList).value,
                     length |-> Head(runList).length + Head(rest).length]>>
                      \o Tail(rest)
             ELSE <<Head(runList)>> \o rest

\* A placement of at least one item has been described and reduced to a
\* cycle of several runs that is repeated.
SeveralRunsRepeated ==
    /\ Described /\ Reduced
    /\ argStitches >= 1
    /\ repeatPattern.repeats >= 2
    /\ Len(repeatPattern.sequences) > 1

\* C26, as stated: when the cycle has several runs and is repeated, its
\* first and last run have different values and the run list of the full
\* placement is the cycle's run list repeated `repeats` times.
C26_AsStated ==
    SeveralRunsRepeated =>
        /\ RunsOfRepeat[1].value # RunsOfRepeat[Len(RunsOfRepeat)].value
        /\ RunsOfInfo = Repeat(RunsOfRepeat, repeatPattern.repeats)

\* C26 (Seam of the repeat, amended): the first and the last run of the
\* cycle have different values exactly when the cycle has 2 rows; the
\* cycle's run list repeated `repeats` times stands for the full placement,
\* and the run list of the full placement is that repeated list with the
\* equal-valued runs that meet at the seams merged.
C26_Seam ==
    SeveralRunsRepeated =>
        /\ RunsOfRepeat[1].value # RunsOfRepeat[Len(RunsOfRepeat)].value
               <=> repeatPattern.cycleRows = 2
        /\ ExpandRuns(Repeat(RunsOfRepeat, repeatPattern.repeats))
               = distributionInfo.distribution
        /\ RunsOfInfo = MergeRuns(Repeat(RunsOfRepeat, repeatPattern.repeats))

\* 6 items over 8 slots: the cycle 1, 1, 0, 1 starts and ends with 1, and
\* the full placement has 5 runs, not 6.
C26_Witness ==
    /\ SeveralRunsRepeated
    /\ argStitches = 6 /\ argRows = 8
    /\ repeatPattern.pattern = <<1, 1, 0, 1>>
    /\ Len(RunsOfRepeat) = 3
    /\ Len(RunsOfInfo) = 5

\* C27 (Single run): for items >= 1 the cycle has exactly one run only when
\* cycleRows = 1, i.e. slots divides items; the run then has length 1 and
\* value items/slots, and the description names 1 row, in the singular.
C27_SingleRun ==
    (Reduced /\ argStitches >= 1) =>
        /\ Len(repeatPattern.sequences) = 1 <=> repeatPattern.cycleRows = 1
        /\ Len(repeatPattern.sequences) = 1 =>
               /\ argStitches % argRows = 0
               /\ repeatPattern.sequences =
                      <<[stitches |-> argStitches \div argRows, rows |-> 1]>>
               /\ repeatPattern.description =
                      "Pick up " \o ToString(argStitches \div argRows)
                          \o " from each of 1 row"

\* 12 items over 4 slots: one run of 3 on 1 row, repeated 4 times.
C27_Witness ==
    /\ Reduced
    /\ argStitches = 12 /\ argRows = 4
    /\ repeatPattern.repeats = 4
    /\ repeatPattern.description = "Pick up 3 from each of 1 row"

----------------------------------------------------------------------------
(* Properties of the size form *)

\* The run of calculate shown last has called analyzeAllSizes.
SizeAnalysed == fn = "calculate" /\ calls # <<>>

\* What that call returned, and the valid sizes among those it was given.
Analysis == calls[1].ret

ValidSizes == SelectSeq(calls[1].args[4], IsValidSize)

\* How far the actual measurement of the i-th valid size, not rounded, is
\* from the desired measurement.
UnroundedDistance(i) ==
    MathAbs(DblSub(ToNumber(calculateActualMeasurement(args.personalGauge,
                                args.patternGauge, ValidSizes[i].measurement)),
                   args.desiredMeasurement))

\* C22 (Size selection), as stated: when analyzeAllSizes returns an
\* analysis, bestMatch is a valid size whose actual measurement is at least
\* as close to the desired measurement as that of every other valid size,
\* and strictly closer than that of every valid size entered before it.
C22_SizeSelection ==
    (SizeAnalysed /\ ~HasError(Analysis)) =>
        /\ Analysis.bestMatch \in 1..Len(ValidSizes)
        /\ \A j \in 1..Len(ValidSizes) :
               ~JsLess(UnroundedDistance(j),
                       UnroundedDistance(Analysis.bestMatch))
        /\ \A j \in 1..(Analysis.bestMatch - 1) :
               JsLess(UnroundedDistance(Analysis.bestMatch),
                      UnroundedDistance(j))

\* The positions of the size list that displayResult has marked.
RecommendedItems ==
    {i \in 1..Len(resultSection.content.sizeList) :
        resultSection.content.sizeList[i].recommended}

\* C28 (One recommended size), as stated: in a result that displayResult
\* has rendered, exactly one entry of the size list is marked as
\* recommended, the one at the position of bestMatch.
C28_OneRecommended ==
    (SizeAnalysed /\ ~HasError(Analysis) /\ Analysis.bestMatch # 0) =>
        RecommendedItems = {Analysis.bestMatch}

\* C29 (Error branch of calculate), as stated: a call of analyzeAllSizes by
\* calculate never returns an error, and the bestMatch it returns is never
\* null.
C29_ErrorBranchUnreachable ==
    SizeAnalysed => ~HasError(Analysis) /\ Analysis.bestMatch # 0

----------------------------------------------------------------------------
(* Properties of the three result sections *)

\* The outcome of the run of a handler on a form.
OutcomeOf(runs, form) == (CHOOSE run \in runs : run.form = form).outcome

\* The run ended in an error: a message was shown, or an exception left
\* the handler.
EndedInError(outcome) == outcome.error \/ outcome.content.kind = "TypeError"

\* The section is shown, carries 'warning' exactly when the run ended in
\* an error, and shows the result of a run that did not.
ShowsOutcome(section, outcome) ==
    /\ "hidden" \notin section.classes
    /\ "warning" \in section.classes <=> EndedInError(outcome)
    /\ ~EndedInError(outcome) => section.content = outcome.content

\* A step of a handler leaves its section showing the outcome of the run
\* and the two other sections as they were.
RecoverableStep ==
    /\ fn' = "calculate" =>
           /\ ShowsOutcome(resultSection', OutcomeOf(SizeRuns, args'))
           /\ UNCHANGED <<pickupResultSection, combineResultSection>>
    /\ fn' = "calculatePickup" =>
           /\ ShowsOutcome(pickupResultSection', OutcomeOf(PickupRuns, args'))
           /\ UNCHANGED <<resultSection, combineResultSection>>
    /\ fn' = "calculateCombine" =>
           /\ ShowsOutcome(combineResultSection',
                           OutcomeOf(CombineRuns, args'))
           /\ UNCHANGED <<resultSection, pickupResultSection>>

\* C24 (Errors are recoverable), as stated: every invocation of a handler
\* leaves its section shown, with 'warning' exactly when the invocation
\* ended in an error and with the result otherwise, and leaves the two
\* other sections as they were.
C24_Recoverable == [][RecoverableStep]_vars

----------------------------------------------------------------------------
(* Properties of the swatch previews *)

\* A number above 0, and a fabric both of whose gauge fields hold one.
AboveZero(x) == (IsFinite(x) \/ x.kind = "inf") /\ ~IsZero(x) /\ ~x.neg

HasBothGauges(h, v) == AboveZero(h) /\ AboveZero(v)

HasMainGauges == HasBothGauges(gaugeInputs.mainH, gaugeInputs.mainV)

HasBorderGauges == HasBothGauges(gaugeInputs.borderH, gaugeInputs.borderV)

\* C30 (Swatch view-mode exclusivity): in 'side-by-side' the overlay
\* container is empty and hidden; in 'overlay' both single previews are
\* empty, the overlay container is shown exactly when at least one fabric
\* has both gauges above 0, and it holds the overlay comparison exactly
\* when both fabrics do.
C30_ViewModeExclusivity ==
    /\ currentViewMode = "side-by-side" =>
           /\ swatchOverlayContainer.content = EmptyHTML
           /\ swatchOverlayContainer.display = "none"
    /\ currentViewMode = "overlay" =>
           /\ mainSwatchPreview = EmptyHTML
           /\ borderSwatchPreview = EmptyHTML
           /\ swatchOverlayContainer.display # "none"
                  <=> (HasMainGauges \/ HasBorderGauges)
           /\ swatchOverlayContainer.content.kind = "comparison"
                  <=> (HasMainGauges /\ HasBorderGauges)

\* Overlay mode with the main gauges entered and a border gauge missing:
\* the container is shown and asks for both gauges.
C30_Witness ==
    /\ currentViewMode = "overlay"
    /\ HasMainGauges /\ ~HasBorderGauges
    /\ swatchOverlayContainer.display = "flex"
    /\ swatchOverlayContainer.content.kind = "placeholder"

----------------------------------------------------------------------------
(* Properties of the loops *)

\* The call followed step by step has returned.
Completed == locals.pc = "done"

\* What is left to do of the loop that is running: the magnitude of b, the
\* rows not yet generated, the slots not yet scanned (counted so that a run
\* of no rows would not lower it), the pick-ups and skips not yet placed.
Variant ==
    IF fn = "gcd" THEN Abs(locals.b)
    ELSE IF fn = "generateEvenDistribution" THEN args[2] - locals.row
    ELSE IF fn = "findMinimalRepeat"
    THEN 3 * (Len(locals.pattern) - locals.i)
             + (IF ~locals.inner THEN 2 ELSE IF locals.rows = 0 THEN 1 ELSE 3)
    ELSE IF locals.pc = "start" THEN args[2] + 1
    ELSE locals.remainingPickups + locals.remainingSkips

\* C23 (Termination): every call returns; as long as it has not, each step
\* lowers a count that is never negative (for calculateDistribution, on
\* 0 <= totalStitches < totalRows, remainingPickups + remainingSkips);
\* generateEvenDistribution has made exactly totalRows passes when it
\* returns, and the scan of findMinimalRepeat has passed every slot.
C23_Termination ==
    /\ <>Completed
    /\ [](~Completed => Variant >= 0)
    /\ [][~Completed' => Variant' < Variant]_locals
    /\ [](Completed /\ fn = "generateEvenDistribution" =>
              locals.row = args[2] /\ Len(ret[1]) = args[2])
    /\ [](Completed /\ fn = "findMinimalRepeat" =>
              locals.i = Len(locals.pattern))

\* gcd has returned for a negative argument after three passes (-4 and 6:
\* the remainders -4, 2 and 0), and so it returned 2.
C23_Witness ==
    /\ Completed
    /\ fn = "gcd" /\ args = <<-4, 6>>
    /\ locals.iterations = 3
    /\ ret = <<2>>

====
